---- MODULE Spec2Model ----
(***************************************************************************)
(* A model of ormantic: the operator registry (ormantic/operators.py), the *)
(* predicate algebra (ormantic/express.py), the statement builders         *)
(* (ormantic/query.py) and the MySQL and PostgreSQL compilers              *)
(* (ormantic/dialects/*/query.py).                                         *)
(*                                                                         *)
(* Python objects are records tagged by their type in the field t.         *)
(* Exceptions are modelled by the name of the raised class, "none" when    *)
(* the call returned.                                                      *)
(***************************************************************************)
EXTENDS Integers, Sequences, FiniteSets, TLC

VARIABLES
    operators,   \* OperatorMeta.__operators__: token -> instance id
    heap,        \* Operator instances ever allocated: heap[id] = its token
    groups,      \* group name -> its __operators__ dict (token -> instance id)
    ret,         \* the last registry call and its outcome
    built,       \* the Python expression object built last
    stash,       \* an expression kept aside for a later and_ / or_
    ir,          \* the builder object at work: a Query, Update, Delete or Insert
    meta,        \* the metadata of the table class: __orm_fields__
    hist,        \* the builder calls made on ir so far, by kind
    call,        \* the last construction / encode / builder / compile call and its outcome
    instance,    \* the model instance at work: __dict__ and __fields_set__
    now          \* the clock update_factory reads

opVars == <<operators, heap, groups, ret>>
modelVars == <<instance, now>>
irVars == <<ir, meta, hist, modelVars>>
exprVars == <<built, stash, call, irVars>>
vars == <<operators, heap, groups, ret, built, stash, ir, meta, hist, call, instance, now>>

(***************************************************************************)
(* Bounds                                                                  *)
(***************************************************************************)
MaxHeap == 21        \* instances the registry runs may allocate
MaxRegisterArgs == 2 \* operators passed to one registers() call

(***************************************************************************)
(* ormantic/operators.py                                                   *)
(***************************************************************************)
OPERATOR_PREFIX == "$"

ArithmeticTokens == <<"$add", "$sub", "$mul", "$truediv", "$floordiv", "$mod">>
BooleanTokens == <<"$gt", "$gte", "$lt", "$lte", "$eq", "$ne", "$in", "$nin", "$regex">>
LogicTokens == <<"$and", "$or">>

\* the tokens a caller may pass: the core ones, the dialect ones, a fresh
\* one, and a string without the prefix
DialectTokens == {"$like", "$not_like"}
FreshTokens == {"$xxx"}
BadTokens == {"xxx"}

Range(s) == {s[i] : i \in DOMAIN s}

CoreTokens == Range(ArithmeticTokens) \cup Range(BooleanTokens) \cup Range(LogicTokens)
Tokens == CoreTokens \cup DialectTokens \cup FreshTokens \cup BadTokens

\* the tokens the modelled callers construct operators from, and the ones
\* they hand to registers()
CallTokens == {"$eq", "$and"} \cup DialectTokens \cup FreshTokens \cup BadTokens
RegisterTokens == {"$and"} \cup DialectTokens
RegisterGroups == {"LogicOperator", "ArithmeticOperator"}

\* str.startswith(OPERATOR_PREFIX), over the strings of the model: the
\* tokens listed above are the only ones that begin with the prefix
StartsWithPrefix(tok) == tok \in CoreTokens \cup DialectTokens \cup FreshTokens

NoneId == 0   \* Python None where an instance id is expected

\* the state reached by one Operator(token) call: OperatorMeta.__call__
\* looks the token up, type.__call__ runs Operator.__new__ (prefix check,
\* second lookup, allocation, store) and __init__, and __call__ stores again
OperatorCallFresh(ops, hp, tok) ==
    IF ~StartsWithPrefix(tok)
    THEN [operators |-> ops, heap |-> hp, result |-> NoneId, raised |-> "ValueError"]
    ELSE [operators |-> [t \in DOMAIN ops \cup {tok} |->
                            IF t = tok THEN Len(hp) + 1 ELSE ops[t]],
          heap |-> Append(hp, tok),
          result |-> Len(hp) + 1,
          raised |-> "none"]

OperatorCall(ops, hp, tok) ==
    IF tok \in DOMAIN ops
    THEN [operators |-> ops, heap |-> hp, result |-> ops[tok], raised |-> "none"]
    ELSE IF ~StartsWithPrefix(tok)
    THEN [operators |-> ops, heap |-> hp, result |-> NoneId, raised |-> "ValueError"]
    ELSE [operators |-> [t \in DOMAIN ops \cup {tok} |->
                            IF t = tok THEN Len(hp) + 1 ELSE ops[t]],
          heap |-> Append(hp, tok),
          result |-> Len(hp) + 1,
          raised |-> "none"]

\* Operator.validate: the ValueError of a bad prefix becomes None
OperatorValidate(ops, hp, tok) ==
    LET r == OperatorCall(ops, hp, tok)
    IN  IF r.raised = "ValueError" THEN [r EXCEPT !.raised = "none", !.result = NoneId]
        ELSE r

\* the module body: the three group classes create their operators in order
InitTokenOrder == ArithmeticTokens \o BooleanTokens \o LogicTokens

InitOperators == [t \in CoreTokens |->
                    CHOOSE i \in DOMAIN InitTokenOrder : InitTokenOrder[i] = t]

\* OperatorGroup.__new__: {str(v): v for the Operator values of the class body}
GroupDict(tokens) == [t \in Range(tokens) |-> InitOperators[t]]

InitGroups == [ArithmeticOperator |-> GroupDict(ArithmeticTokens),
               BooleanOperator |-> GroupDict(BooleanTokens),
               LogicOperator |-> GroupDict(LogicTokens)]

\* OperatorGroup.registers: the loop over *operators; ids are the instances
\* passed, i the position reached.  Stops at the first instance whose token
\* is already a key of the group's dict.
RECURSIVE RegistersLoop(_, _, _, _)
RegistersSilent(dict, ids, hp, i) ==
    IF i > Len(ids) THEN [dict |-> dict, raised |-> "none"]
    ELSE RegistersLoop([t \in DOMAIN dict \cup {hp[ids[i]]} |->
                            IF t = hp[ids[i]] THEN ids[i] ELSE dict[t]],
                       ids, hp, i + 1)

RegistersLoop(dict, ids, hp, i) ==
    IF i > Len(ids) THEN [dict |-> dict, raised |-> "none"]
    ELSE IF hp[ids[i]] \notin DOMAIN dict
    THEN RegistersLoop([t \in DOMAIN dict \cup {hp[ids[i]]} |->
                            IF t = hp[ids[i]] THEN ids[i] ELSE dict[t]],
                       ids, hp, i + 1)
    ELSE [dict |-> dict, raised |-> "ValueError"]

\* the module-level dict `negative`, by token
negative == [t \in {"$gt", "$gte", "$lt", "$lte", "$eq", "$ne", "$nin", "$in", "$or", "$and"} |->
    CASE t = "$gt" -> "$lte"
      [] t = "$gte" -> "$lt"
      [] t = "$lt" -> "$gte"
      [] t = "$lte" -> "$gt"
      [] t = "$eq" -> "$ne"
      [] t = "$ne" -> "$eq"
      [] t = "$nin" -> "$in"
      [] t = "$in" -> "$nin"
      [] t = "$or" -> "$and"
      [] t = "$and" -> "$or"]

\* negatived(op) = negative.get(op): the counterpart's instance, or None
negatived(ops, tok) ==
    IF tok \in DOMAIN negative THEN [result |-> ops[negative[tok]], raised |-> "none"]
    ELSE [result |-> NoneId, raised |-> "none"]

\* -op: class Operator defines no __neg__, so the unary minus raises
OperatorNeg(ops, tok) == [result |-> NoneId, raised |-> "TypeError"]

NoCall == [op |-> "none"]

(***************************************************************************)
(* Registry actions                                                        *)
(***************************************************************************)
\* Operator(tok)
DoOperator(tok) ==
    /\ Len(heap) < MaxHeap
    /\ LET r == OperatorCall(operators, heap, tok)
       IN  /\ operators' = r.operators
           /\ heap' = r.heap
           /\ ret' = [op |-> "Operator", token |-> tok, result |-> r.result,
                      raised |-> r.raised, known |-> tok \in DOMAIN operators]
    /\ UNCHANGED <<groups, exprVars>>

\* Operator.validate(tok)
DoValidate(tok) ==
    /\ Len(heap) < MaxHeap
    /\ LET r == OperatorValidate(operators, heap, tok)
       IN  /\ operators' = r.operators
           /\ heap' = r.heap
           /\ ret' = [op |-> "validate", token |-> tok, result |-> r.result,
                      raised |-> r.raised, known |-> tok \in DOMAIN operators]
    /\ UNCHANGED <<groups, exprVars>>

\* Group.registers(*ops): the arguments are existing Operator instances
DoRegisters(g, ids) ==
    /\ LET r == RegistersLoop(groups[g], ids, heap, 1)
       IN  /\ groups' = [groups EXCEPT ![g] = r.dict]
           /\ ret' = [op |-> "registers", group |-> g,
                      args |-> [i \in DOMAIN ids |-> heap[ids[i]]],
                      before |-> DOMAIN groups[g], raised |-> r.raised]
    /\ UNCHANGED <<operators, heap, exprVars>>

\* negatived(op) for an existing instance
DoNegatived(tok) ==
    /\ tok \in DOMAIN operators
    /\ LET r == negatived(operators, tok)
       IN  ret' = [op |-> "negatived", token |-> tok, result |-> r.result,
                   raised |-> r.raised]
    /\ UNCHANGED <<operators, heap, groups, exprVars>>

\* -op for an existing instance
DoNeg(tok) ==
    /\ tok \in DOMAIN operators
    /\ LET r == OperatorNeg(operators, tok)
       IN  ret' = [op |-> "neg", token |-> tok, result |-> r.result,
                   raised |-> r.raised]
    /\ UNCHANGED <<operators, heap, groups, exprVars>>

ArgLists == UNION {[1..n -> RegisterTokens] : n \in 1..MaxRegisterArgs}

\* the table class the builders work on: tests' User, with its age column
\* stored under an alias
TableName == "user"
DeclaredFields == <<"id", "name", "age">>
PrimaryKeys == <<"id">>
Alias == [n \in {"id", "name", "age"} |-> IF n = "age" THEN "user_age" ELSE n]

\* ModelMetaclass.__new__: __orm_fields__ in declaration order
InitTable == [fields |-> DeclaredFields]

NoHist == [n |-> 0, errors |-> 0, selects |-> <<>>, filters |-> <<>>, orders |-> <<>>, limits |-> <<>>]

\* no builder object yet
InitIrIdle ==
    /\ ir = [t |-> "None"]
    /\ meta = InitTable
    /\ hist = NoHist
    /\ instance = [t |-> "None"]
    /\ now = 0

InitExprIdle ==
    /\ built = [t |-> "None"]
    /\ stash = [t |-> "None"]
    /\ InitIrIdle
    /\ call = NoCall

InitOps ==
    /\ operators = InitOperators
    /\ heap = InitTokenOrder
    /\ groups = InitGroups
    /\ ret = NoCall
    /\ InitExprIdle

NextOps ==
    \/ \E tok \in CallTokens : DoOperator(tok)
    \/ \E tok \in CallTokens : DoValidate(tok)
    \/ \E g \in RegisterGroups : \E toks \in ArgLists :
          /\ \A i \in DOMAIN toks : toks[i] \in DOMAIN operators
          /\ DoRegisters(g, [i \in DOMAIN toks |-> operators[toks[i]]])
    \/ \E tok \in Tokens : DoNegatived(tok)
    \/ \E tok \in Tokens : DoNeg(tok)

SpecOps == InitOps /\ [][NextOps]_vars

(***************************************************************************)
(* Python values                                                           *)
(***************************************************************************)
NonePy == [t |-> "None"]
PyInt(n) == [t |-> "int", n |-> n]
Str(s) == [t |-> "str", s |-> s]
Tuple(items) == [t |-> "tuple", items |-> items]
List(items) == [t |-> "list", items |-> items]
\* a dict is the sequence of its (key, value) pairs in insertion order
Dict(items) == [t |-> "dict", items |-> items]
Dict1(k, v) == Dict(<< <<k, v>> >>)
FieldProxy(table, name) == [t |-> "FieldProxy", table |-> table, name |-> name]
\* a raised exception in the place of a returned value
Raise(exc) == [t |-> "raise", exc |-> exc]

IsSeqValue(v) == v.t \in {"list", "tuple"}

\* the first raised exception among the elements of a sequence, else result
Lift(seq, result) ==
    LET bad == {i \in DOMAIN seq : seq[i].t = "raise"}
    IN  IF bad = {} THEN result
        ELSE seq[CHOOSE i \in bad : \A j \in bad : i <= j]

(***************************************************************************)
(* ormantic/express.py                                                     *)
(***************************************************************************)
\* the loop of Predicate.__init__ over values
RECURSIVE PredicateValues(_, _)
PredicateValues(operator, values) ==
    IF values = <<>> THEN <<>>
    ELSE LET i == Head(values)
         IN  (IF i.t = "Predicate" /\ operator = i.operator /\ Len(i.values) > 1
              THEN i.values
              ELSE <<i>>) \o PredicateValues(operator, Tail(values))

Predicate(operator, values) ==
    [t |-> "Predicate", operator |-> operator, values |-> PredicateValues(operator, values)]

\* Predicate.dict
RECURSIVE PredicateDict(_)
PredicateDictShallow(p) == Dict1(p.operator, List(p.values))

PredicateDict(p) ==
    Dict1(p.operator,
          List([i \in DOMAIN p.values |->
                    IF p.values[i].t = "Predicate" THEN PredicateDict(p.values[i])
                    ELSE p.values[i]]))

\* Func.and_ / Func.or_
FuncAnd(elements) == Predicate("$and", elements)
FuncOr(elements) == Predicate("$or", elements)

\* Func.eq, ne, gt, gte, lt, lte, match and the arithmetic ones: operator is
\* the token of the group attribute the method names
FuncBinary(operator, left, right) == Predicate(operator, <<left, right>>)

\* tuple(x) for the iterables of the model (a str, which tuple() would split
\* into characters, is never passed)
PyTuple(x) ==
    CASE IsSeqValue(x) -> Tuple(x.items)
      [] x.t = "dict" -> Tuple([i \in DOMAIN x.items |-> Str(x.items[i][1])])
      [] OTHER -> Raise("TypeError")

\* Func.in_ / Func.nin
FuncIn(operator, expression, sequence) ==
    Lift(<<PyTuple(sequence)>>, Predicate(operator, <<expression, PyTuple(sequence)>>))

\* `i in Operator`: OperatorMeta.__contains__
InOperator(tok) == tok \in DOMAIN operators

\* `op in ArithmeticOperator`: OperatorGroup.__contains__
InArithmeticOperator(tok) == tok \in DOMAIN groups["ArithmeticOperator"]

\* check_predicate
RECURSIVE check_predicate(_)
check_predicate(obj) ==
    /\ obj.t = "dict"
    /\ \/ \A i \in DOMAIN obj.items : InOperator(obj.items[i][1])
       \/ \A i \in DOMAIN obj.items : check_predicate(obj.items[i][2])

\* encode, with validate_predicate_value; a raised exception is returned as
\* a Raise value and passed up through every enclosing call
RECURSIVE encode(_)
validate_predicate_value(v) == IF check_predicate(v) THEN encode(v) ELSE v

\* express[0] if len(express) == 1 else Func.and_(*express)
EncodeReturn(express) ==
    Lift(express, IF Len(express) = 1 THEN express[1] ELSE FuncAnd(express))

\* the elements a `for i in value` sees
PyIter(value) ==
    CASE IsSeqValue(value) -> value.items
      [] value.t = "dict" -> [i \in DOMAIN value.items |-> Str(value.items[i][1])]
      [] OTHER -> <<Raise("TypeError")>>

\* the branch `if op:` of encode for the single item (field, value)
EncodeOperator(op, value) ==
    CASE op = "$and" ->
            EncodeReturn([i \in DOMAIN PyIter(value) |-> encode(PyIter(value)[i])])
      [] op = "$or" ->
            LET es == [i \in DOMAIN PyIter(value) |-> encode(PyIter(value)[i])]
            IN  Lift(es, FuncOr(es))
      [] op \in {"$in", "$nin"} ->
            IF ~IsSeqValue(value) THEN Raise("TypeError")
            ELSE IF Len(value.items) < 2 THEN Raise("IndexError")
            ELSE Lift(<<PyTuple(value.items[2])>>,
                      Predicate(op, <<value.items[1], PyTuple(value.items[2])>>))
      [] op \notin {"$and", "$or", "$in", "$nin"} /\ InArithmeticOperator(op) ->
            IF ~(IsSeqValue(value) \/ value.t = "dict") THEN Raise("TypeError")
            ELSE IF Len(PyIter(value)) # 2 THEN Raise("ValueError")
            ELSE LET f == PyIter(value)[1]
                     v == PyIter(value)[2]
                 IN  IF f.t = "raise" THEN f
                     ELSE IF v.t = "list"
                     THEN IF Len(v.items) # 2 THEN Raise("AssertionError")
                          ELSE LET a == validate_predicate_value(v.items[1])
                                   b == validate_predicate_value(v.items[2])
                               IN  Lift(<<a, b>>,
                                        Predicate("$eq", <<Predicate(op, <<f, a>>), b>>))
                     ELSE LET a == validate_predicate_value(v)
                          IN  Lift(<<a>>, Predicate(op, <<f, a>>))
      [] OTHER ->
            IF value.t = "list"
            THEN LET vs == [i \in DOMAIN value.items |->
                                validate_predicate_value(value.items[i])]
                 IN  Lift(vs, Predicate(op, vs))
            ELSE LET a == validate_predicate_value(value)
                 IN  Lift(<<a>>, Predicate(op, <<a>>))

encode(obj) ==
    CASE obj.t \in {"Predicate", "raise"} -> obj
      [] IsSeqValue(obj) ->
            LET es == [i \in DOMAIN obj.items |-> encode(obj.items[i])]
            IN  Lift(es, FuncAnd(es))
      [] obj.t = "dict" ->
            IF Len(obj.items) > 1
            THEN encode(List([i \in DOMAIN obj.items |-> Dict(<<obj.items[i]>>)]))
            ELSE IF Len(obj.items) = 0 THEN Raise("KeyError")
            ELSE LET field == obj.items[1][1]
                     value == obj.items[1][2]
                 IN  IF StartsWithPrefix(field)
                     THEN EncodeOperator(field, value)
                     ELSE IF check_predicate(value)
                     THEN EncodeReturn([i \in DOMAIN value.items |->
                            encode(Dict1(value.items[i][1],
                                         List(<<Str(field), value.items[i][2]>>)))])
                     ELSE Predicate("$eq", <<Str(field), value>>)
      [] OTHER -> Raise("PredicateEncodeError")

(***************************************************************************)
(* What encode leaves behind: obj.popitem() takes the item out of the dict *)
(* it was given, and Operator.validate(field) creates and registers an     *)
(* operator for a key with the prefix that none is registered for.  An     *)
(* effect is [arg, keys]: the object after the call and the keys handed to *)
(* Operator.validate, in call order.  check_predicate is evaluated on the  *)
(* registry before the call.                                               *)
(***************************************************************************)
NoEffect(obj) == [arg |-> obj, keys |-> <<>>]

\* encode(obj) raises; validate_predicate_value(v) raises
Raises(obj) == encode(obj).t = "raise"
ValidateRaises(v) == check_predicate(v) /\ Raises(v)

\* The effect of one part of encode, by the part:
\*   "encode"    encode(x)
\*   "validate"  validate_predicate_value(x)
\*   "each"      [encode(i) for i in x] (y = "encode"), or
\*               [validate_predicate_value(i) for i in x] (y = "validate")
\*   "item"      what follows popitem() for the item (x, y), on the value y
\*   "items"     encode({k: v}) for the items (k, v) of x (y = None: the
\*               copies of a longer dict), or encode({k: [y, v]}) (the loop
\*               `for k, v in value.items()` for the field y)
\* A loop makes its calls up to and including the first one that raises;
\* nothing inside encode catches an exception, so when the outermost call
\* returns (stops = FALSE) every loop has made all its calls.
RECURSIVE Effect(_, _, _, _)
Effect(part, x, y, stops) ==
    CASE part = "encode" ->
            IF IsSeqValue(x)
            THEN LET e == Effect("each", x.items, "encode", stops)
                 IN  [e EXCEPT !.arg = [x EXCEPT !.items = e.arg]]
            ELSE IF x.t = "dict" /\ Len(x.items) > 1
            THEN LET e == Effect("items", x.items, NonePy, stops)
                 IN  [e EXCEPT !.arg = Dict(e.arg)]
            ELSE IF x.t = "dict" /\ Len(x.items) = 1
            THEN \* obj.popitem() leaves the dict empty
                 [Effect("item", x.items[1][1], x.items[1][2], stops) EXCEPT !.arg = Dict(<<>>)]
            ELSE NoEffect(x)
      [] part = "validate" ->
            IF check_predicate(x) THEN Effect("encode", x, NonePy, stops) ELSE NoEffect(x)
      [] part \in {"each", "items"} ->
            LET operand(it) == IF y = NonePy THEN it[2] ELSE List(<<y, it[2]>>)
                raised(j) == CASE part = "items" -> Raises(Dict1(x[j][1], operand(x[j])))
                               [] part = "each" /\ y = "encode" -> Raises(x[j])
                               [] OTHER -> ValidateRaises(x[j])
                live(i) == stops => \A j \in 1..(i - 1) : ~raised(j)
                eff(i) == IF part = "each" THEN Effect(y, x[i], NonePy, stops)
                          ELSE LET e == Effect("item", x[i][1], operand(x[i]), stops)
                               IN  [e EXCEPT !.arg = <<x[i][1],
                                                       IF y = NonePy THEN @ ELSE @.items[2]>>]
                effs == [i \in DOMAIN x |-> IF live(i) THEN eff(i) ELSE NoEffect(x[i])]
                Keys[n \in 0..Len(x)] == IF n = 0 THEN <<>> ELSE Keys[n - 1] \o effs[n].keys
            IN  [arg |-> [i \in DOMAIN x |-> effs[i].arg], keys |-> Keys[Len(x)]]
      [] part = "item" ->
            IF StartsWithPrefix(x)
            THEN LET inner ==
                        CASE x \in {"$and", "$or"} ->
                                IF IsSeqValue(y)
                                THEN LET e == Effect("each", y.items, "encode", stops)
                                     IN  [e EXCEPT !.arg = [y EXCEPT !.items = e.arg]]
                                ELSE NoEffect(y)
                          [] x \in {"$in", "$nin"} -> NoEffect(y)
                          [] x \notin {"$and", "$or", "$in", "$nin"} /\ InArithmeticOperator(x) ->
                                IF IsSeqValue(y) /\ Len(y.items) = 2
                                THEN LET v == y.items[2]
                                         e == IF v.t = "list" /\ Len(v.items) = 2
                                              THEN LET l == Effect("each", v.items, "validate", stops)
                                                   IN  [l EXCEPT !.arg = List(l.arg)]
                                              ELSE IF v.t = "list" THEN NoEffect(v)
                                              ELSE Effect("validate", v, NonePy, stops)
                                     IN  [e EXCEPT !.arg = [y EXCEPT !.items[2] = e.arg]]
                                ELSE NoEffect(y)
                          [] OTHER ->
                                IF y.t = "list"
                                THEN LET e == Effect("each", y.items, "validate", stops)
                                     IN  [e EXCEPT !.arg = List(e.arg)]
                                ELSE Effect("validate", y, NonePy, stops)
                 IN  [inner EXCEPT !.keys = <<x>> \o @]
            ELSE IF check_predicate(y)
            THEN LET e == Effect("items", y.items, Str(x), stops)
                 IN  [e EXCEPT !.arg = Dict(e.arg)]
            ELSE NoEffect(y)

\* encode(obj): the argument after the call and the keys validated
EncodeEffect(obj) == Effect("encode", obj, NonePy, Raises(obj))

(***************************************************************************)
(* ormantic/dialects/mysql/query.py, ormantic/dialects/postgresql/query.py *)
(*                                                                         *)
(* The compilers append to the lists sql and params; here a compilation    *)
(* state st = [sql, params, raised] is passed through.  An SQL token is a  *)
(* record: a literal text, or an identifier with its quoting.              *)
(***************************************************************************)
Text(s) == [k |-> "text", s |-> s]
Backquoted(path) == [k |-> "backquoted", path |-> path]   \* `a`.`b`
Plain(path) == [k |-> "plain", path |-> path]             \* a.b

\* str.split("."), over the strings of the model
Split(s) == IF s = "user.id" THEN <<"user", "id">> ELSE <<s>>

\* Config.PARAMSTYLE = ParamStyle.Format
PARAMSTYLE == "%s"

\* the dict `symbols`, the same in both dialect modules
symbols == [tok \in CoreTokens \cup DialectTokens |->
    CASE tok = "$add" -> "+"
      [] tok = "$sub" -> "-"
      [] tok = "$mul" -> "*"
      [] tok = "$truediv" -> "div"
      [] tok = "$floordiv" -> "/"
      [] tok = "$mod" -> "%"
      [] tok = "$gt" -> ">"
      [] tok = "$gte" -> ">="
      [] tok = "$lt" -> "<"
      [] tok = "$lte" -> "<="
      [] tok = "$eq" -> "="
      [] tok = "$ne" -> "!="
      [] tok = "$nin" -> "nin"
      [] tok = "$in" -> "in"
      [] tok = "$regex" -> "REGEXP"
      [] tok = "$or" -> "or"
      [] tok = "$and" -> "and"
      [] tok = "$like" -> "like"
      [] tok = "$not_like" -> "not like"]

\* `expr.operator in LogicOperator` as the dialect modules use the group:
\* they read gt .. regex, AND and OR from LogicOperator and register like and
\* not_like in it, so the group they test against is operators.py's
\* BooleanOperator together with its LogicOperator
InLogicOperator(tok) ==
    tok \in DOMAIN groups["BooleanOperator"] \cup DOMAIN groups["LogicOperator"]

EmptySt == [sql |-> <<>>, params |-> <<>>, raised |-> "none"]
Emit(st, tok) == [st EXCEPT !.sql = Append(@, tok)]
AddParam(st, v) == [st EXCEPT !.params = Append(@, v)]
Fail(st, exc) == [st EXCEPT !.raised = exc]
\* sql.pop()
Pop(st) ==
    IF st.sql = <<>> THEN Fail(st, "IndexError")
    ELSE [st EXCEPT !.sql = SubSeq(@, 1, Len(@) - 1)]

\* FieldProxy.__pos__ (alias or name) and FakeField.__pos__ (name)
Pos(f) == IF f.t = "FieldProxy" /\ f.name \in DOMAIN Alias THEN Alias[f.name] ELSE f.name

\* FieldProxy.orm_name() / FakeField.orm_name(), which the PostgreSQL module calls
FieldOrmName(f) == <<Pos(f)>>

\* the table's orm_name(), which the PostgreSQL module calls
TableOrmName == <<TableName>>

\* the token of a str / of a FieldProxy
StrToken(dialect, e) ==
    IF dialect = "mysql" THEN Backquoted(Split(e.s)) ELSE Plain(Split(e.s))

FieldToken(dialect, e) ==
    IF dialect = "mysql" THEN Backquoted(<<e.table, Pos(e)>>) ELSE Plain(FieldOrmName(e))

\* isinstance(i, LogicOperator): no value is an instance of the group class
IsInstanceLogicOperator(i) == i.t = "LogicOperator"

\* mysql: bracket = isinstance(i, LogicOperator) and i.operator != expr.operator
MysqlBracket(i, expr) == IsInstanceLogicOperator(i) /\ i.operator # expr.operator

\* postgresql: bracket = i.operator in (AND, OR) and i.operator != expr.operator;
\* reading i.operator from an operand that is no Predicate raises
PostgresqlBracket(i, expr) == i.operator \in {"$and", "$or"} /\ i.operator # expr.operator

BracketRaises(dialect, i) == dialect = "postgresql" /\ i.t # "Predicate"

Bracket(dialect, i, expr) ==
    IF dialect = "mysql" THEN MysqlBracket(i, expr) ELSE PostgresqlBracket(i, expr)

\* the exception of the final `else` of the Predicate branch
UnregisteredError(dialect) ==
    IF dialect = "mysql" THEN "OperatorUnregisteredError" ELSE "OperatorError"

RECURSIVE predicate_tokens(_, _, _)
RECURSIVE LogicLoop(_, _, _, _)

\* for i in predicates: ...; then sql.pop()
LogicLoop(dialect, expr, n, st) ==
    IF n > Len(expr.values) THEN Pop(st)
    ELSE LET i == expr.values[n]
         IN  IF BracketRaises(dialect, i) THEN Fail(st, "AttributeError")
             ELSE LET bracket == Bracket(dialect, i, expr)
                      s1 == IF bracket THEN Emit(st, Text("(")) ELSE st
                      s2 == predicate_tokens(dialect, i, s1)
                      s3 == IF bracket THEN Emit(s2, Text(")")) ELSE s2
                      s4 == Emit(s3, Text(symbols[expr.operator]))
                  IN  IF s2.raised # "none" THEN s2
                      ELSE LogicLoop(dialect, expr, n + 1, s4)

\* the last branch of a LogicOperator predicate: left operand,
\* symbol, placeholder, and values[1] appended to params
CompareBranchSwapped(dialect, expr, st) ==
    IF Len(expr.values) < 1 THEN Fail(st, "IndexError")
    ELSE LET s1 == predicate_tokens(dialect, expr.values[1], st)
         IN  IF s1.raised # "none" THEN s1
             ELSE IF expr.operator \notin DOMAIN symbols THEN Fail(s1, "KeyError")
             ELSE IF Len(expr.values) < 2 THEN Fail(s1, "IndexError")
             ELSE [sql |-> s1.sql \o <<Text(symbols[expr.operator]), Text(PARAMSTYLE)>>,
                   params |-> <<expr.values[2]>> \o s1.params,
                   raised |-> "none"]

CompareBranch(dialect, expr, st) ==
    IF Len(expr.values) < 1 THEN Fail(st, "IndexError")
    ELSE LET s1 == predicate_tokens(dialect, expr.values[1], st)
         IN  IF s1.raised # "none" THEN s1
             ELSE IF expr.operator \notin DOMAIN symbols THEN Fail(s1, "KeyError")
             ELSE IF Len(expr.values) < 2 THEN Fail(s1, "IndexError")
             ELSE AddParam(Emit(Emit(s1, Text(symbols[expr.operator])), Text(PARAMSTYLE)),
                           expr.values[2])

\* the eq / ne branch for a None right operand
NullBranch(dialect, expr, st) ==
    LET s1 == predicate_tokens(dialect, expr.values[1], st)
    IN  IF s1.raised # "none" THEN s1
        ELSE IF expr.operator = "$eq" THEN Emit(s1, Text("is null"))
        ELSE Emit(s1, Text("is not null"))

\* the ArithmeticOperator branch: field, value = expr.values
ArithmeticBranch(dialect, expr, st) ==
    IF Len(expr.values) # 2 THEN Fail(st, "ValueError")
    ELSE LET s1 == predicate_tokens(dialect, expr.values[1], st)
         IN  IF s1.raised # "none" THEN s1
             ELSE AddParam(Emit(Emit(s1, Text(symbols[expr.operator])), Text(PARAMSTYLE)),
                           expr.values[2])

\* mysql_predicate_tokens / postgresql_predicate_tokens
predicate_tokens(dialect, expr, st) ==
    CASE expr.t = "str" -> Emit(st, StrToken(dialect, expr))
      [] expr.t = "FieldProxy" -> Emit(st, FieldToken(dialect, expr))
      [] expr.t = "Predicate" ->
            IF InLogicOperator(expr.operator)
            THEN IF expr.operator \in {"$and", "$or"}
                 THEN LogicLoop(dialect, expr, 1, st)
                 ELSE IF /\ expr.operator \in {"$eq", "$ne"}
                         /\ Len(expr.values) = 2
                         /\ expr.values[2] = NonePy
                 THEN NullBranch(dialect, expr, st)
                 ELSE CompareBranch(dialect, expr, st)
            ELSE IF InArithmeticOperator(expr.operator)
            THEN ArithmeticBranch(dialect, expr, st)
            ELSE Fail(st, UnregisteredError(dialect))
      [] OTHER -> Fail(st, "ValueError")

mysql_predicate_tokens(expr, st) == predicate_tokens("mysql", expr, st)
postgresql_predicate_tokens(expr, st) == predicate_tokens("postgresql", expr, st)

\* mysql: predicate_sql_params
predicate_sql_params(expr) == mysql_predicate_tokens(expr, EmptySt)

Dialects == {"mysql", "postgresql"}

(***************************************************************************)
(* Building, encoding and compiling expressions                            *)
(***************************************************************************)
MaxNodes == 5    \* Predicate nodes held in built and stash together
MaxValues == 3   \* values of a node grown by chaining one operator

ID == FieldProxy("user", "id")

Literals == {PyInt(1), PyInt(2), NonePy}
CompareOps == {"$eq", "$ne", "$gt"}
ArithmeticOps == {"$add", "$truediv"}
BinaryOps == CompareOps \cup ArithmeticOps
InOps == {"$in", "$nin"}
LogicOps == {"$and", "$or"}
Sequences == {List(<<PyInt(2), PyInt(1), PyInt(2)>>), Tuple(<<PyInt(1)>>)}

\* the comparisons and_ / or_ are applied to
LogicLeaves == {FuncBinary("$eq", ID, PyInt(1)), FuncBinary("$ne", ID, NonePy)}

\* the mappings handed to encode in field form
FieldFormInputs ==
    {Dict1("id", v) : v \in Literals}
    \cup {Dict1("id", Dict1(op, v)) : op \in CompareOps \cup ArithmeticOps, v \in Literals}
    \cup {Dict1("id", Dict1(op, List(<<a, b>>))) : op \in ArithmeticOps, a \in Literals, b \in Literals}
    \cup {Dict1("id", Dict1(op, List(sq.items))) : op \in InOps, sq \in Sequences}
    \cup {Dict1("$eq", PyInt(1)),
          Dict1("user.id", Dict(<< <<"$gt", PyInt(1)>>, <<"$ne", NonePy>> >>)),
          Dict(<< <<"$or", List(<<Dict1("id", PyInt(1)), Dict1("id", NonePy)>>)>>,
                  <<"id", Dict1("$gt", PyInt(2))>> >>)}

IsPredicate(e) == e.t = "Predicate"

\* the Predicate nodes of an expression, and the mappings kept as operands
RECURSIVE Nodes(_)
SumNodes(vs) == LET RECURSIVE S(_)
                    S(n) == IF n = 0 THEN 0 ELSE Nodes(vs[n]) + S(n - 1)
                IN  S(Len(vs))
Nodes(e) ==
    CASE IsPredicate(e) -> 1 + SumNodes(e.values)
      [] e.t = "dict" -> 1 + SumNodes([i \in DOMAIN e.items |-> e.items[i][2]])
      [] e.t \in {"list", "tuple"} -> SumNodes(e.items)
      [] OTHER -> 0

\* every Predicate node of e, e included
RECURSIVE SubPredicates(_)
SubPredicates(e) ==
    IF IsPredicate(e)
    THEN {e} \cup UNION {SubPredicates(e.values[i]) : i \in DOMAIN e.values}
    ELSE {}

\* e is built from the comparisons of LogicLeaves with and_ / or_ only
Combinable(e) ==
    /\ IsPredicate(e)
    /\ \A p \in SubPredicates(e) : p.operator \in LogicOps \/ p \in LogicLeaves

\* b fits beside the stashed expression s; beside a stashed expression only
\* operands of and_ / or_ are built
Fits(b, s) ==
    /\ Nodes(b) + Nodes(s) <= MaxNodes
    /\ s = NonePy \/ b.t = "raise" \/ Combinable(b)

\* a call that returned r (or raised): built takes the result
Returned(name, operator, args, r) ==
    /\ call' = [op |-> name, operator |-> operator, args |-> args,
                raised |-> IF r.t = "raise" THEN r.exc ELSE "none"]
    /\ built' = IF r.t = "raise" THEN built ELSE r

\* field OP value through the overloaded operators: Func.eq(field, value), ...
BinaryOnField(op, v) ==
    /\ Fits(FuncBinary(op, ID, v), stash)
    /\ Returned("binary", op, <<ID, v>>, FuncBinary(op, ID, v))
    /\ UNCHANGED <<stash, irVars, opVars>>

\* the chained form: (expression built last) OP value
BinaryOnBuilt(op, v) ==
    /\ IsPredicate(built) /\ Nodes(built) = 1 /\ Len(built.values) < MaxValues
    /\ Fits(FuncBinary(op, built, v), stash)
    /\ Returned("binary", op, <<built, v>>, FuncBinary(op, built, v))
    /\ UNCHANGED <<stash, irVars, opVars>>

\* field.in_(sequence), field.nin(sequence)
InOnField(op, sq) ==
    /\ Fits(FuncIn(op, ID, sq), stash)
    /\ Returned("in", op, <<ID, sq>>, FuncIn(op, ID, sq))
    /\ UNCHANGED <<stash, irVars, opVars>>

\* the chained form: (expression built last).in_(sequence)
InOnBuilt(op, sq) ==
    /\ IsPredicate(built) /\ Nodes(built) = 1 /\ Len(built.values) < MaxValues
    /\ Fits(FuncIn(op, built, sq), stash)
    /\ Returned("in", op, <<built, sq>>, FuncIn(op, built, sq))
    /\ UNCHANGED <<stash, irVars, opVars>>

\* keep the expression built last for a later and_ / or_
Stash ==
    /\ Combinable(built)
    /\ Fits(built, built)
    /\ stash' = built
    /\ UNCHANGED <<built, call, irVars, opVars>>

\* the operand lists of and_ / or_: none, the expression built last, the
\* stashed one with it (both orders)
LogicArgs ==
    {<<>>}
    \cup (IF Combinable(built) THEN {<<built>>} ELSE {})
    \cup (IF Combinable(built) /\ Combinable(stash)
          THEN {<<stash, built>>, <<built, stash>>} ELSE {})

\* Func.and_(*elements), Func.or_(*elements), and the & and | operators
Logic(op, elements) ==
    LET r == IF op = "$and" THEN FuncAnd(elements) ELSE FuncOr(elements)
    IN  /\ Nodes(r) <= MaxNodes
        /\ Returned("logic", op, elements, r)
        /\ stash' = IF Len(elements) = 2 /\ IsPredicate(elements[1]) THEN NonePy ELSE stash
        /\ UNCHANGED <<irVars, opVars>>

\* Operator.validate(key) for the keys of an encode call, in call order
RECURSIVE ValidateAll(_, _, _)
ValidateAll(ops, hp, keys) ==
    IF keys = <<>> THEN [operators |-> ops, heap |-> hp]
    ELSE LET r == OperatorValidate(ops, hp, Head(keys))
         IN  ValidateAll(r.operators, r.heap, Tail(keys))

\* encode(obj) returned r (or raised): built takes the result, the argument
\* is left as popitem() left it, the registry as Operator.validate left it
EncodeCall(obj, again) ==
    \E r \in {encode(obj)}, e \in {EncodeEffect(obj)} :
    \E reg \in {ValidateAll(operators, heap, e.keys)} :
        /\ call' = [op |-> "encode", operator |-> "", args |-> <<obj>>,
                    raised |-> IF r.t = "raise" THEN r.exc ELSE "none",
                    after |-> e.arg, again |-> again]
        /\ built' = IF r.t = "raise" THEN built ELSE r
        /\ operators' = reg.operators
        /\ heap' = reg.heap
        /\ UNCHANGED <<groups, ret, stash, irVars>>

\* encode(obj) of a mapping in field form
EncodeField(obj) ==
    /\ Fits(encode(obj), stash)
    /\ EncodeCall(obj, FALSE)

\* encode(built.dict()): the dict of the expression built last, encoded again
EncodeDict ==
    /\ IsPredicate(built)
    /\ EncodeCall(PredicateDict(built), FALSE)

\* encode({op: [built.dict(), v]}): the dict of an expression the
\* constructors built, written as an operand of op
EncodeWrapped(op, v) ==
    LET obj == Dict1(op, List(<<PredicateDict(built), v>>))
    IN  /\ IsPredicate(built) /\ Nodes(built) <= 2
        /\ call.op \in {"binary", "in", "logic"}
        /\ Fits(encode(obj), stash)
        /\ EncodeCall(obj, FALSE)

\* encode(obj) once more, of the object the last encode call was given
EncodeAgain ==
    /\ call.op = "encode" /\ ~call.again
    /\ EncodeCall(call.after, TRUE)

\* the registry once ormantic and one dialect module are imported: the
\* dialect module has created like and not_like and registered them
DialectOrder == <<"$like", "$not_like">>
ImportedHeap == InitTokenOrder \o DialectOrder
ImportedOperators ==
    [t \in CoreTokens \cup DialectTokens |->
        CHOOSE i \in DOMAIN ImportedHeap : ImportedHeap[i] = t]
ImportedGroups ==
    [InitGroups EXCEPT !["LogicOperator"] =
        RegistersLoop(InitGroups["LogicOperator"],
                      [i \in DOMAIN DialectOrder |-> ImportedOperators[DialectOrder[i]]],
                      ImportedHeap, 1).dict]

InitExpr ==
    /\ operators = ImportedOperators
    /\ heap = ImportedHeap
    /\ groups = ImportedGroups
    /\ ret = NoCall
    /\ built = NonePy
    /\ stash = NonePy
    /\ InitIrIdle
    /\ call = NoCall

NextExpr ==
    \/ \E op \in BinaryOps, v \in Literals : BinaryOnField(op, v)
    \/ \E op \in BinaryOps, v \in Literals : BinaryOnBuilt(op, v)
    \/ \E op \in InOps, sq \in Sequences : InOnField(op, sq)
    \/ \E op \in InOps, sq \in Sequences : InOnBuilt(op, sq)
    \/ Stash
    \/ \E op \in LogicOps : \E elements \in LogicArgs : Logic(op, elements)
    \/ \E obj \in FieldFormInputs : EncodeField(obj)
    \/ EncodeDict
    \/ \E op \in {"$eq", "$and", "$or", "$add"}, v \in {PyInt(2)} : EncodeWrapped(op, v)

SpecExpr == InitExpr /\ [][NextExpr]_vars

\* encode() alone, also of mappings with a key that has the prefix and is
\* no registered token, and of the object of the call before
NextEncode ==
    \/ \E op \in BinaryOps, v \in Literals : BinaryOnField(op, v)
    \/ \E obj \in FieldFormInputs \cup {Dict1(t, PyInt(1)) : t \in FreshTokens}
                  \cup {Dict1("id", Dict1(t, PyInt(1))) : t \in FreshTokens} : EncodeField(obj)
    \/ EncodeDict
    \/ EncodeAgain

SpecEncode == InitExpr /\ [][NextEncode]_vars

(***************************************************************************)
(* ormantic/query.py: the statement builders                               *)
(***************************************************************************)
\* fields.py: FakeField, CountField, DistinctField
FakeField(name) == [t |-> "FakeField", table |-> TableName, name |-> name]
CountField(field) == [t |-> "CountField", field |-> field]
DistinctField(field) == [t |-> "DistinctField", field |-> field]

\* isinstance(field, ABCField)
IsABCField(v) == v.t \in {"FieldProxy", "FakeField", "CountField", "DistinctField"}

\* fields.py: asc / desc
asc(field) == <<field, TRUE>>
desc(field) == <<field, FALSE>>

\* BaseORMModel.get_fields / get_field on the table class
get_fields(m) == m.fields
get_field(m, name) ==
    IF \E i \in DOMAIN m.fields : m.fields[i] = name
    THEN FieldProxy(TableName, name) ELSE NonePy

\* str(field) for the str and int arguments of count / distinct
PyStr(v) == IF v.t = "str" THEN v.s ELSE IF v.n = 1 THEN "1" ELSE "0"

\* dict.update on a dict kept as its (key, value) pairs in insertion order
DictSet(items, k, v) ==
    IF \E i \in DOMAIN items : items[i][1] = k
    THEN [i \in DOMAIN items |-> IF items[i][1] = k THEN <<k, v>> ELSE items[i]]
    ELSE Append(items, <<k, v>>)

RECURSIVE DictUpdate(_, _)
DictUpdate(items, other) ==
    IF other = <<>> THEN items
    ELSE DictUpdate(DictSet(items, Head(other)[1], Head(other)[2]), Tail(other))

\* `return self`, and a raise out of a method that leaves self as it is then
Self(o) == [t |-> "ref", id |-> o.id]
DoneCopy(o) == [self |-> o, result |-> [t |-> "ref", id |-> o.id + 1]]
Done(o) == [self |-> o, result |-> Self(o)]
Raised(o, exc) == [self |-> o, result |-> Raise(exc)]

\* SelectMixin.select(*fields): self.fields = [] and one append per field
RECURSIVE SelectLoop(_, _, _)
SelectLoop(self, m, fields) ==
    IF fields = <<>> THEN Done(self)
    ELSE LET field == Head(fields)
             field_ == IF IsABCField(field) THEN field ELSE get_field(m, PyStr(field))
         IN  IF field_ = NonePy THEN Raised(self, "FieldNotFoundError")
             ELSE SelectLoop([self EXCEPT !.fields = Append(@, field_)], m, Tail(fields))

selectKeep(self, m, fields) == SelectLoop(self, m, fields)
select(self, m, fields) == SelectLoop([self EXCEPT !.fields = <<>>], m, fields)

\* select(table=table), as Query.__init__ calls it
SelectTable(self, m) ==
    [self EXCEPT !.fields = [i \in DOMAIN get_fields(m) |-> FieldProxy(TableName, get_fields(m)[i])]]

\* FilterMixin.filter(*args, **kwargs): the loop over args, then over kwargs
RECURSIVE FilterArgs(_, _, _)
RECURSIVE FilterKwargs(_, _, _)
FilterKwargs(self, m, kwargs) ==
    IF kwargs = <<>> THEN Done(self)
    ELSE LET name == Head(kwargs)[1]
             value == Head(kwargs)[2]
             field == get_field(m, name)
         IN  IF field = NonePy THEN Raised(self, "FieldNotFoundError")
             ELSE FilterKwargs([self EXCEPT !.filters = Append(@, FuncBinary("$eq", field, value))],
                               m, Tail(kwargs))

FilterArgs(self, m, c) ==
    IF c.args = <<>> THEN FilterKwargs(self, m, c.kwargs)
    ELSE LET item == Head(c.args)
             rest == [c EXCEPT !.args = Tail(@)]
         IN  IF item.t = "Predicate"
             THEN FilterArgs([self EXCEPT !.filters = Append(@, item)], m, rest)
             ELSE IF item.t = "dict"
             THEN FilterArgs(self, m, [rest EXCEPT !.kwargs = DictUpdate(@, item.items)])
             ELSE Raised(self, "ValueError")

filter(self, m, c) == FilterArgs(self, m, c)

\* OrderByMixin.order_by(*args, **kwargs): self.sorts is assigned at the end
RECURSIVE OrderByLoop(_, _, _, _)
OrderByLoop(self, m, sorts, kwargs) ==
    IF kwargs = <<>> THEN Done([self EXCEPT !.sorts = @ \o sorts])
    ELSE LET field == get_field(m, Head(kwargs)[1])
         IN  IF field = NonePy THEN Raised(self, "FieldNotFoundError")
             ELSE OrderByLoop(self, m,
                              Append(sorts, IF Head(kwargs)[2] THEN asc(field) ELSE desc(field)),
                              Tail(kwargs))

order_by(self, m, c) == OrderByLoop(self, m, c.args, c.kwargs)

\* LimitMixin, PaginateMixin
limit(self, offset, rows) == Done([self EXCEPT !.offset = offset, !.rows = rows])
first(self) == limit(self, NonePy, PyInt(1))
all(self) == limit(self, NonePy, NonePy)
paginateTimes(self, page, page_size) == limit(self, PyInt(page * page_size), PyInt(page_size))

paginate(self, page, page_size) == limit(self, PyInt((page - 1) * page_size), PyInt(page_size))

\* CountDistinct
count(self, m, field) ==
    IF IsABCField(field) THEN select(self, m, <<CountField(field)>>)
    ELSE LET f_ == get_field(m, PyStr(field))
         IN  IF f_ # NonePy THEN select(self, m, <<CountField(f_)>>)
             ELSE select(self, m, <<CountField(FakeField(PyStr(field)))>>)

distinct(self, field) ==
    Done([self EXCEPT !.fields =
            <<IF IsABCField(field) THEN DistinctField(field)
              ELSE DistinctField(FakeField(PyStr(field)))>>])

count_distinct(self, m, field) ==
    LET d == distinct(self, field).self
        f_ == d.fields[Len(d.fields)]
        popped == [d EXCEPT !.fields = SubSeq(@, 1, Len(@) - 1)]
    IN  [self |-> count(popped, m, f_).self, result |-> Self(self)]

\* Query.__init__(table), Update.__init__, Delete.__init__, Insert.__init__
Query(id, m) ==
    all(SelectTable([t |-> "Query", id |-> id, fields |-> <<>>, filters |-> <<>>,
                     sorts |-> <<>>, offset |-> PyInt(0), rows |-> PyInt(0)], m)).self

Update(id, m, filters, value) ==
    filter([t |-> "Update", id |-> id, value |-> value, filters |-> <<>>],
           m, [args |-> filters, kwargs |-> <<>>]).self

Delete(id, m, filters) ==
    filter([t |-> "Delete", id |-> id, filters |-> <<>>],
           m, [args |-> filters, kwargs |-> <<>>]).self

Insert(id, values) == [t |-> "Insert", id |-> id, values |-> values]

\* Update.update(**value), Insert.add(value)
UpdateUpdate(self, value) == Done([self EXCEPT !.value = DictUpdate(@, value)])
InsertAdd(self, value) == Done([self EXCEPT !.values = Append(@, value)])

(***************************************************************************)
(* ormantic/dialects/{mysql,postgresql}/query.py: the statement compilers  *)
(***************************************************************************)
\* the tokens of a statement beyond those of a predicate: "comma" f"{tok},",
\* "chopped" tok[:-1] of a token without a comma, "count" count(tok),
\* "distinct" distinct tok, "joined" ", ".join(toks), "columns" (a, b, c),
\* "placeholders" (%s<sep>%s...) of <<n, sep>>, "offset, rows" of
\* <<offset, rows>>, "number" of a row count
Token(kind, of) == [k |-> kind, of |-> of]

\* sql.append(sql.pop()[:-1])
Chop(st) ==
    LET last == st.sql[Len(st.sql)]
    IN  [st EXCEPT !.sql[Len(st.sql)] = IF last.k = "comma" THEN last.of ELSE Token("chopped", last)]

\* bool(v) of an offset or a row count
Truthy(v) == v # NonePy /\ v # PyInt(0)

\* the values mysql_token / postgresql_token do not raise ValueError on
RECURSIVE Tokenizable(_)
Tokenizable(value) ==
    IF value.t \in {"CountField", "DistinctField"} THEN Tokenizable(value.field)
    ELSE value.t \in {"FieldProxy", "FakeField"}

\* mysql_token / postgresql_token of a field
RECURSIVE token(_, _)
token(dialect, value) ==
    CASE value.t = "DistinctField" -> Token("distinct", token(dialect, value.field))
      [] value.t = "CountField" -> Token("count", token(dialect, value.field))
      [] OTHER ->
            IF dialect = "mysql"
            THEN IF Pos(value) \in {"1", "*"} THEN Text(Pos(value))
                 ELSE Backquoted(<<TableName, Pos(value)>>)
            ELSE IF FieldOrmName(value)[1] \in {"1", "*"} THEN Text(FieldOrmName(value)[1])
                 ELSE Plain(FieldOrmName(value))

\* mysql_token / postgresql_token of the table
TableToken(dialect) ==
    IF dialect = "mysql" THEN Backquoted(<<TableName>>) ELSE Plain(TableOrmName)

\* mysql: for field in fields: sql.append(mysql_token(field) + ",")
RECURSIVE CommaTokens(_, _, _)
CommaTokens(dialect, fields, st) ==
    IF fields = <<>> THEN st
    ELSE IF ~Tokenizable(Head(fields)) THEN Fail(st, "ValueError")
    ELSE CommaTokens(dialect, Tail(fields), Emit(st, Token("comma", token(dialect, Head(fields)))))

\* the select list: a comma after each token and the last comma removed
\* (mysql), one joined token (postgresql)
SelectList(dialect, fields, st) ==
    IF dialect = "mysql"
    THEN LET s1 == CommaTokens(dialect, fields, st)
         IN  IF s1.raised # "none" THEN s1 ELSE Chop(s1)
    ELSE IF \E i \in DOMAIN fields : ~Tokenizable(fields[i]) THEN Fail(st, "ValueError")
    ELSE Emit(st, Token("joined", [i \in DOMAIN fields |-> token(dialect, fields[i])]))

\* if query.filters: where, Predicate(LogicOperator.AND, query.filters)
Where(dialect, filters, st) ==
    IF filters = <<>> THEN st
    ELSE predicate_tokens(dialect, Predicate("$and", filters), Emit(st, Text("where")))

\* if query.sorts: order by, then token and "asc," / "desc," per pair
RECURSIVE SortTokens(_, _, _)
SortTokens(dialect, sorts, st) ==
    IF sorts = <<>> THEN st
    ELSE IF ~Tokenizable(Head(sorts)[1]) THEN Fail(st, "ValueError")
    ELSE SortTokens(dialect, Tail(sorts),
                    Emit(Emit(st, token(dialect, Head(sorts)[1])),
                         Token("comma", Text(IF Head(sorts)[2] THEN "asc" ELSE "desc"))))

OrderBy(dialect, sorts, st) ==
    IF sorts = <<>> THEN st
    ELSE LET s1 == SortTokens(dialect, sorts, Emit(Emit(st, Text("order")), Text("by")))
         IN  IF s1.raised # "none" THEN s1 ELSE Chop(s1)

\* if query.rows: limit, "offset, rows" or "rows"
Limit(offset, rows, st) ==
    IF ~Truthy(rows) THEN st
    ELSE Emit(Emit(st, Text("limit")),
              IF Truthy(offset) THEN Token("offset, rows", <<offset, rows>>) ELSE Token("number", rows))

query_sql_paramsSortsFirst(dialect, query) ==
    LET s1 == SelectList(dialect, query.fields, Emit(EmptySt, Text("select")))
        s2 == Emit(Emit(s1, Text("from")), TableToken(dialect))
        s3 == OrderBy(dialect, query.sorts, s2)
        s4 == Where(dialect, query.filters, s3)
    IN  IF s1.raised # "none" THEN s1
        ELSE IF s4.raised # "none" THEN s4
        ELSE Limit(query.offset, query.rows, s4)

query_sql_params(dialect, query) ==
    LET s1 == SelectList(dialect, query.fields, Emit(EmptySt, Text("select")))
        s2 == Emit(Emit(s1, Text("from")), TableToken(dialect))
        s3 == Where(dialect, query.filters, s2)
        s4 == OrderBy(dialect, query.sorts, s3)
    IN  IF s1.raised # "none" THEN s1
        ELSE IF s3.raised # "none" THEN s3
        ELSE IF s4.raised # "none" THEN s4
        ELSE Limit(query.offset, query.rows, s4)

delete_sql_params(dialect, query) ==
    Where(dialect, query.filters,
          Emit(Emit(Emit(EmptySt, Text("delete")), Text("from")), TableToken(dialect)))

\* for k, v in query.value.items(): token of get_field(k), "=", "%s,"
RECURSIVE SetTokens(_, _, _, _)
SetTokens(dialect, m, value, st) ==
    IF value = <<>> THEN st
    ELSE LET field == get_field(m, Head(value)[1])
         IN  IF field = NonePy THEN Fail(st, "ValueError")
             ELSE SetTokens(dialect, m, Tail(value),
                            AddParam(Emit(Emit(Emit(st, token(dialect, field)), Text("=")),
                                          Token("comma", Text(PARAMSTYLE))),
                                     Head(value)[2]))

update_sql_params(dialect, m, query) ==
    LET s0 == Emit(Emit(Emit(EmptySt, Text("update")), TableToken(dialect)), Text("set"))
        s1 == SetTokens(dialect, m, query.value, s0)
    IN  IF s1.raised # "none" THEN s1
        ELSE Where(dialect, query.filters, Chop(s1))

\* tuple(getattr(value, i) for i in field_names), one per row
RowParams(names, values) ==
    [r \in DOMAIN values |-> Tuple([i \in DOMAIN names |-> values[r][names[i]]])]

\* mysql: insert_sql_params
mysql_insert_sql_params(m, query) ==
    LET names == get_fields(m)
        s0 == Emit(Emit(Emit(Emit(EmptySt, Text("insert")), Text("into")),
                        TableToken("mysql")), Text("("))
        s1 == Chop(CommaTokens("mysql", [i \in DOMAIN names |-> FieldProxy(TableName, names[i])], s0))
        s2 == Emit(Emit(Emit(s1, Text(")")), Text("VALUES")), Token("placeholders", <<Len(names), ",">>))
    IN  [s2 EXCEPT !.params = RowParams(names, query.values)]

\* postgresql: for i in __primary_keys__: if getattr(values[0], i, None) is
\* None: fields.pop(i), on the dict get_fields() returns; the result carries
\* the fields left in the table's metadata
RECURSIVE PopPrimaryKeys(_, _, _)
PopPrimaryKeys(keys, values, r) ==
    IF keys = <<>> \/ r.raised # "none" THEN r
    ELSE IF values = <<>> THEN [r EXCEPT !.raised = "IndexError"]
    ELSE IF values[1][Head(keys)] # NonePy THEN PopPrimaryKeys(Tail(keys), values, r)
    ELSE IF ~\E i \in DOMAIN r.fields : r.fields[i] = Head(keys)
    THEN [r EXCEPT !.raised = "KeyError"]
    ELSE PopPrimaryKeys(Tail(keys), values,
                        [r EXCEPT !.fields = SelectSeq(@, LAMBDA n : n # Head(keys))])

postgresql_insert_fields(m, query) ==
    PopPrimaryKeys(PrimaryKeys, query.values, [fields |-> get_fields(m), raised |-> "none"])

postgresql_insert_sql_params(m, query) ==
    LET r == postgresql_insert_fields(m, query)
        names == r.fields
        cols == Token("columns", [i \in DOMAIN names |-> Plain(FieldOrmName(FieldProxy(TableName, names[i])))])
        s1 == Emit(Emit(Emit(Emit(Emit(Emit(EmptySt, Text("insert")), Text("into")),
                                  TableToken("postgresql")), cols),
                        Text("values")), Token("placeholders", <<Len(names), ", ">>))
    IN  IF r.raised # "none" THEN Fail(EmptySt, r.raised)
        ELSE [s1 EXCEPT !.params = RowParams(names, query.values)]

\* sql_params(value) of a dialect: the statement, and the table's metadata
\* as the call leaves it
sql_params(dialect, m, value) ==
    LET st == CASE value.t = "Query" -> query_sql_params(dialect, value)
                [] value.t = "Delete" -> delete_sql_params(dialect, value)
                [] value.t = "Update" -> update_sql_params(dialect, m, value)
                [] value.t = "Insert" /\ dialect = "mysql" -> mysql_insert_sql_params(m, value)
                [] value.t = "Insert" /\ dialect = "postgresql" -> postgresql_insert_sql_params(m, value)
                [] OTHER -> Fail(EmptySt, "ValueError")
    IN  [sql |-> st.sql, params |-> st.params, raised |-> st.raised,
         meta |-> IF value.t = "Insert" /\ dialect = "postgresql"
                  THEN [m EXCEPT !.fields = postgresql_insert_fields(m, value).fields]
                  ELSE m]

(***************************************************************************)
(* Building and compiling statements                                       *)
(***************************************************************************)
MaxCalls == 3    \* builder calls made on the objects of one behaviour

NAME == FieldProxy(TableName, "name")
AGE == FieldProxy(TableName, "age")

\* User.id == 1, User.name == "x", and the two joined by or_
IdIs1 == FuncBinary("$eq", ID, PyInt(1))
NameIsX == FuncBinary("$eq", NAME, Str("x"))
Either == FuncOr(<<IdIs1, NameIsX>>)

\* User(id=1, name="a", age=20) and User(id=None, name="b", age=30)
Row1 == [id |-> PyInt(1), name |-> Str("a"), age |-> PyInt(20)]
Row2 == [id |-> NonePy, name |-> Str("b"), age |-> PyInt(30)]

\* obj.<op>(args) for the methods that return self
Invoke(self, m, op, args) ==
    CASE op = "select" -> select(self, m, args)
      [] op \in {"filter", "where"} -> filter(self, m, args)
      [] op = "order_by" -> order_by(self, m, args)
      [] op = "limit" -> limit(self, args[1], args[2])
      [] op = "first" -> first(self)
      [] op = "all" -> all(self)
      [] op = "paginate" -> paginate(self, args[1], args[2])
      [] op = "count" -> count(self, m, args)
      [] op = "distinct" -> distinct(self, args)
      [] op = "count_distinct" -> count_distinct(self, m, args)
      [] op = "update" -> UpdateUpdate(self, args)
      [] op = "add" -> InsertAdd(self, args)

\* the calls made so far, by the attribute they work on
Record(op, args) ==
    LET c == [op |-> op, args |-> args]
    IN  CASE op \in {"select", "count", "distinct", "count_distinct"} ->
                [hist EXCEPT !.n = @ + 1, !.selects = Append(@, c)]
          [] op \in {"filter", "where"} -> [hist EXCEPT !.n = @ + 1, !.filters = Append(@, c)]
          [] op = "order_by" -> [hist EXCEPT !.n = @ + 1, !.orders = Append(@, c)]
          [] op \in {"limit", "first", "all", "paginate"} ->
                [hist EXCEPT !.n = @ + 1, !.limits = Append(@, c)]
          [] OTHER -> [hist EXCEPT !.n = @ + 1]

\* a call of a method that returns self, on the object held in ir
Called(op, args) ==
    LET r == Invoke(ir, meta, op, args)
    IN  /\ hist.n < MaxCalls
        /\ ir' = r.self
        /\ call' = [op |-> op, args |-> args, result |-> r.result]
        /\ hist' = [Record(op, args) EXCEPT !.errors = @ + IF r.result.t = "raise" THEN 1 ELSE 0]
        /\ UNCHANGED <<meta, built, stash, opVars, modelVars>>

Select(fields) == ir.t = "Query" /\ Called("select", fields)
Filter(c) == ir.t \in {"Query", "Update", "Delete"} /\ Called("filter", c)
WhereCall(c) == ir.t \in {"Query", "Update", "Delete"} /\ Called("where", c)
OrderByCall(c) == ir.t = "Query" /\ Called("order_by", c)
LimitCall(a) == ir.t = "Query" /\ Called("limit", a)
First == ir.t = "Query" /\ Called("first", <<>>)
All == ir.t = "Query" /\ Called("all", <<>>)
Paginate(page, page_size) == ir.t = "Query" /\ Called("paginate", <<page, page_size>>)
CountCall(field) == ir.t = "Query" /\ Called("count", field)
DistinctCall(field) == ir.t = "Query" /\ Called("distinct", field)
CountDistinctCall(field) == ir.t = "Query" /\ Called("count_distinct", field)
UpdateCall(value) == ir.t = "Update" /\ Called("update", value)
Add(row) == ir.t = "Insert" /\ Called("add", row)

\* Query.update(**value) / Query.delete(): a new Update / Delete on the
\* query's filters, which the behaviour goes on with
QueryUpdate(value) ==
    /\ ir.t = "Query"
    /\ hist.n < MaxCalls
    /\ ir' = Update(ir.id + 1, meta, ir.filters, value)
    /\ call' = [op |-> "Query.update", args |-> value, result |-> Self(ir')]
    /\ hist' = [hist EXCEPT !.n = @ + 1]
    /\ UNCHANGED <<meta, built, stash, opVars, modelVars>>

QueryDelete ==
    /\ ir.t = "Query"
    /\ hist.n < MaxCalls
    /\ ir' = Delete(ir.id + 1, meta, ir.filters)
    /\ call' = [op |-> "Query.delete", args |-> <<>>, result |-> Self(ir')]
    /\ hist' = [hist EXCEPT !.n = @ + 1]
    /\ UNCHANGED <<meta, built, stash, opVars, modelVars>>

\* sql_params(ir) of a dialect
SqlParams(dialect) ==
    LET r == sql_params(dialect, meta, ir)
    IN  /\ call' = [op |-> "sql_params", args |-> dialect,
                    result |-> [sql |-> r.sql, params |-> r.params, raised |-> r.raised]]
        /\ meta' = r.meta
        /\ UNCHANGED <<ir, hist, built, stash, opVars, modelVars>>

InitQuery ==
    /\ operators = ImportedOperators
    /\ heap = ImportedHeap
    /\ groups = ImportedGroups
    /\ ret = NoCall
    /\ built = NonePy
    /\ stash = NonePy
    /\ meta = InitTable
    /\ hist = NoHist
    /\ call = NoCall
    /\ instance = [t |-> "None"]
    /\ now = 0
    /\ ir \in {Query(1, InitTable), Update(1, InitTable, <<>>, <<>>), Delete(1, InitTable, <<>>)}
              \cup {Insert(1, rows) : rows \in {<<>>, <<Row1>>, <<Row2, Row1>>}}

NextQuery ==
    \/ \E fields \in {<<NAME, Str("id")>>, <<Str("id"), Str("nope")>>, <<>>} : Select(fields)
    \/ \E c \in { [args |-> <<IdIs1>>, kwargs |-> <<>>],
                  [args |-> <<Either>>, kwargs |-> <<>>],
                  [args |-> <<Dict1("name", Str("x"))>>, kwargs |-> << <<"id", PyInt(1)>> >>],
                  [args |-> <<NameIsX>>, kwargs |-> << <<"nope", PyInt(1)>> >>],
                  [args |-> <<FuncBinary("$eq", ID, NAME),
                              FuncBinary("$eq", AGE, FuncBinary("$add", ID, PyInt(1)))>>,
                   kwargs |-> <<>>] } : Filter(c)
    \/ \E c \in {[args |-> <<IdIs1>>, kwargs |-> <<>>]} : WhereCall(c)
    \/ \E c \in { [args |-> <<asc(ID)>>, kwargs |-> <<>>],
                  [args |-> <<>>, kwargs |-> << <<"name", FALSE>> >>],
                  [args |-> <<desc(AGE)>>, kwargs |-> << <<"nope", TRUE>> >>] } : OrderByCall(c)
    \/ \E a \in {<<PyInt(5), PyInt(10)>>, <<PyInt(0), PyInt(0)>>} : LimitCall(a)
    \/ First
    \/ All
    \/ \E page \in {1, 3}, page_size \in {2} : Paginate(page, page_size)
    \/ \E field \in {ID, PyInt(1), Str("nope")} : CountCall(field)
    \/ \E field \in {AGE} : DistinctCall(field)
    \/ \E field \in {AGE, Str("age")} : CountDistinctCall(field)
    \/ \E value \in { << <<"name", Str("x")>> >>,
                      << <<"age", PyInt(3)>>, <<"name", Str("y")>> >>,
                      << <<"nope", PyInt(1)>> >>,
                      <<>> } : UpdateCall(value)
    \/ \E row \in {Row1, Row2} : Add(row)
    \/ \E value \in {<< <<"name", Str("x")>> >>} : QueryUpdate(value)
    \/ QueryDelete
    \/ \E dialect \in Dialects : SqlParams(dialect)

SpecQuery == InitQuery /\ [][NextQuery]_vars

(***************************************************************************)
(* ormantic/model.py: a model instance, and the sessions that persist it.  *)
(*                                                                         *)
(* The class is the tests' User: id (primary key, autoincrement), name,    *)
(* and u_at with an update_factory and the default None.  An instance is   *)
(* [dict, fields_set, fields_modified]: __dict__, pydantic's               *)
(* __fields_set__ and __fields_modified__.  The database is outside: the   *)
(* cursor's lastrowid and rowcount are inputs of the calls.                *)
(***************************************************************************)
MaxNow == 2    \* times the clock advances

ModelFields == {"id", "name", "u_at"}           \* __fields__
HotFields == <<"u_at">>                         \* __hot_fields__
IncField == "id"                                \* __inc_field__
Nullable(name) == name \in {"id", "u_at"}       \* proxy.nullable

\* User(**data): the fields given are the fields set
User(data) ==
    [dict |-> [n \in ModelFields |-> IF n \in DOMAIN data THEN data[n] ELSE NonePy],
     fields_set |-> DOMAIN data,
     fields_modified |-> ModelFields]

\* an instance as session.find returns it: validated, __fields_set__ cleared
Found(data) == [User(data) EXCEPT !.fields_set = {}]

\* update_factory(): datetime.now
update_factory(clk) == PyInt(clk)

\* name in self.__primary_keys__ and getattr(self, name, None) is not None
PrimaryKeySetNever(self, name) == FALSE
PrimaryKeySet(self, name) == name \in Range(PrimaryKeys) /\ self.dict[name] # NonePy

\* name in self.__dict__ and old_value == value
UnchangedNever(self, name, value) == FALSE
Unchanged(self, name, value) == name \in DOMAIN self.dict /\ self.dict[name] = value

\* the outcome of a call on an instance: the instance after it, the
\* exception, the update_factory calls made and the depth of __setattr__
Outcome(self, raised, factory, depth) ==
    [self |-> self, raised |-> raised, factory |-> factory, depth |-> depth]

\* BaseORMModel.__setattr__
RECURSIVE setattr(_, _, _, _)
setattr(self, clk, name, value) ==
    IF name \in ModelFields
    THEN IF PrimaryKeySet(self, name) THEN Outcome(self, "PrimaryKeyModifyError", 0, 1)
         ELSE IF ~Nullable(name) /\ value = NonePy THEN Outcome(self, "ValueError", 0, 1)
         ELSE IF Unchanged(self, name, value) THEN Outcome(self, "none", 0, 1)
         ELSE LET \* super().__setattr__ and self.__fields_modified__.add(name)
                  stored == [self EXCEPT !.dict[name] = value,
                                         !.fields_set = @ \cup {name},
                                         !.fields_modified = @ \cup {name}]
                  RECURSIVE Hot(_, _)
                  Hot(r, ts) ==
                      IF ts = <<>> \/ r.raised # "none" THEN r
                      ELSE LET t == setattr(r.self, clk, Head(ts), update_factory(clk))
                           IN  Hot(Outcome([t.self EXCEPT !.fields_modified = @ \cup {name}],
                                           t.raised, r.factory + 1 + t.factory,
                                           IF t.depth + 1 > r.depth THEN t.depth + 1 ELSE r.depth),
                                   Tail(ts))
              IN  IF name \in Range(HotFields) THEN Outcome(stored, "none", 0, 1)
                  ELSE Hot(Outcome(stored, "none", 0, 1), HotFields)
    ELSE Outcome([self EXCEPT !.dict = [n \in DOMAIN @ \cup {name} |->
                                            IF n = name THEN value ELSE @[n]]],
                 "none", 0, 1)

\* BaseORMModel.set_inc_id
set_inc_id(self, clk, inc_id) ==
    IF self.dict[IncField] = NonePy THEN setattr(self, clk, IncField, inc_id)
    ELSE Outcome(self, "none", 0, 0)

\* set_auto_increment, which the sessions call: sets the autoincrement
\* field when it is None
set_auto_increment(self, clk, id) == set_inc_id(self, clk, id)

Sessions == {"mysql.Session", "BaseSyncSession", "AIOSession"}

\* what cur.execute of a statement comes back with: the cursor's lastrowid
\* and rowcount, or the exception of the driver
Cursor(lastrowid, rowcount) == [raised |-> "none", lastrowid |-> lastrowid, rowcount |-> rowcount]
Cursors == {Cursor(NonePy, 0), Cursor(PyInt(2), 1), [raised |-> "Error"]}

\* Session.save: the statements executed and the instance after the call
save(session, self, clk, cur) ==
    LET returns(r, executed) == [self |-> r.self, raised |-> r.raised, executed |-> executed]
        query == CASE session = "mysql.Session" -> "upsert"
                   [] Range(PrimaryKeys) \cap self.fields_set # {} -> "insert"
                   [] OTHER -> "update"
    IN  IF self.fields_set = {} THEN returns(Outcome(self, "none", 0, 0), <<>>)
        ELSE IF cur.raised # "none" THEN returns(Outcome(self, cur.raised, 0, 0), <<query>>)
        ELSE IF session = "mysql.Session"
        THEN IF cur.lastrowid # NonePy
             THEN returns(set_auto_increment(self, clk, cur.lastrowid), <<query>>)
             ELSE returns(Outcome(self, "none", 0, 0), <<query>>)
        ELSE LET r == set_auto_increment(self, clk, cur.lastrowid)
             IN  returns([r EXCEPT !.self.fields_set = IF r.raised = "none" THEN {} ELSE @],
                         <<query>>)

\* Session.remove: execute(Delete(...)), then the test of the affected rows;
\* in mysql.Session the value compared with 0 is the cursor execute returns
remove(session, self, cur) ==
    IF cur.raised # "none" THEN cur.raised
    ELSE IF session # "mysql.Session" /\ cur.rowcount = 0 THEN "RowNotFoundError"
    ELSE "none"

(***************************************************************************)
(* Assignments to an instance and session calls                            *)
(***************************************************************************)
\* instance.name = value
SetAttr(name, value) ==
    LET r == setattr(instance, now, name, value)
    IN  /\ instance' = r.self
        /\ call' = [op |-> "setattr", args |-> <<name, value>>, raised |-> r.raised,
                    factory |-> r.factory, depth |-> r.depth]
        /\ UNCHANGED <<now, ir, meta, hist, built, stash, opVars>>

\* instance.set_inc_id(inc_id)
SetIncId(inc_id) ==
    LET r == set_inc_id(instance, now, inc_id)
    IN  /\ instance' = r.self
        /\ call' = [op |-> "set_inc_id", args |-> <<inc_id>>, raised |-> r.raised,
                    factory |-> r.factory, depth |-> r.depth]
        /\ UNCHANGED <<now, ir, meta, hist, built, stash, opVars>>

\* time.sleep: the clock moves on
Sleep ==
    /\ now < MaxNow
    /\ now' = now + 1
    /\ call' = [op |-> "sleep"]
    /\ UNCHANGED <<instance, ir, meta, hist, built, stash, opVars>>

\* session.save(instance)
Save(session, cur) ==
    LET r == save(session, instance, now, cur)
    IN  /\ instance' = r.self
        /\ call' = [op |-> "save", session |-> session, cursor |-> cur,
                    raised |-> r.raised, executed |-> r.executed]
        /\ UNCHANGED <<now, ir, meta, hist, built, stash, opVars>>

\* session.remove(instance)
Remove(session, cur) ==
    /\ call' = [op |-> "remove", session |-> session, cursor |-> cur,
                raised |-> remove(session, instance, cur), executed |-> <<"delete">>]
    /\ UNCHANGED <<instance, now, ir, meta, hist, built, stash, opVars>>

InitSession ==
    /\ operators = ImportedOperators
    /\ heap = ImportedHeap
    /\ groups = ImportedGroups
    /\ ret = NoCall
    /\ built = NonePy
    /\ stash = NonePy
    /\ ir = [t |-> "None"]
    /\ meta = InitTable
    /\ hist = NoHist
    /\ call = NoCall
    /\ now = 0
    /\ instance \in {User([n \in {"name"} |-> Str("tom")]),
                     User([n \in {"id", "name"} |-> IF n = "id" THEN PyInt(1) ELSE Str("tom")]),
                     Found([n \in {"id", "name"} |-> IF n = "id" THEN PyInt(1) ELSE Str("tom")])}

NextSession ==
    \/ \E name \in {"id"}, value \in {NonePy, PyInt(1)} : SetAttr(name, value)
    \/ \E name \in {"name"}, value \in {NonePy, Str("tom"), Str("Tom")} : SetAttr(name, value)
    \/ \E name \in {"u_at", "age"}, value \in {NonePy, PyInt(MaxNow + 1)} : SetAttr(name, value)
    \/ \E inc_id \in {PyInt(1), PyInt(2)} : SetIncId(inc_id)
    \/ Sleep
    \/ \E session \in Sessions, cur \in Cursors : Save(session, cur)
    \/ \E session \in Sessions, cur \in Cursors : Remove(session, cur)

SpecSession == InitSession /\ [][NextSession]_vars

(***************************************************************************)
(* Operator registry: claims                                               *)
(***************************************************************************)
InternedInv ==
    /\ \A i, j \in DOMAIN heap : heap[i] = heap[j] => i = j
    /\ \A t \in DOMAIN operators : heap[operators[t]] = t
    /\ (ret.op = "Operator" /\ ret.raised = "none") => ret.result = operators[ret.token]

InternedStep ==
    \A t \in DOMAIN operators : t \in DOMAIN operators' /\ operators'[t] = operators[t]

\* C8: after any sequence of Operator(token) constructions and registers()
\* calls no two allocated instances carry the same token, the registry binds
\* every token to one instance for good, and Operator(t) returns that instance.
C8_Interning == []InternedInv /\ [][InternedStep]_vars

\* a second Operator("$xxx") after the dialect operators were registered
C8_Witness ==
    /\ ret.op = "Operator" /\ ret.token = "$xxx" /\ ret.known /\ ret.raised = "none"
    /\ "$like" \in DOMAIN groups["LogicOperator"]

\* the first position of args whose token is in the group when its turn
\* comes (0 when there is none)
FirstPresent(args, before) ==
    LET hit == {i \in DOMAIN args :
                    args[i] \in before \cup {args[j] : j \in 1..(i - 1)}}
    IN  IF hit = {} THEN 0 ELSE CHOOSE i \in hit : \A j \in hit : i <= j

DeclaredNegation ==
    [t \in {"$gt", "$lte", "$gte", "$lt", "$eq", "$ne", "$in", "$nin"} |->
        CASE t = "$gt" -> "$lte"
          [] t = "$lte" -> "$gt"
          [] t = "$gte" -> "$lt"
          [] t = "$lt" -> "$gte"
          [] t = "$eq" -> "$ne"
          [] t = "$ne" -> "$eq"
          [] t = "$in" -> "$nin"
          [] t = "$nin" -> "$in"]

\* C10: requesting the negation of an operator (negatived(op) or -op) returns
\* the declared counterpart, and fails with an error for an operator without
\* a declared negation.
C10_Negation ==
    ret.op \in {"negatived", "neg"} =>
        /\ ret.token \in DOMAIN DeclaredNegation =>
              /\ ret.raised = "none"
              /\ ret.result # NoneId
              /\ heap[ret.result] = DeclaredNegation[ret.token]
        /\ ret.token \notin DOMAIN negative => ret.raised # "none"

(***************************************************************************)
(* Expressions: claims                                                     *)
(***************************************************************************)
Compile(dialect, e) == predicate_tokens(dialect, e, EmptySt)

Count(sql, tok) == Cardinality({i \in DOMAIN sql : sql[i] = tok})

IsLogic(e) == IsPredicate(e) /\ e.operator \in LogicOps

\* the operands, over the whole tree, that are and / or nodes under an
\* and / or node of the other operator
RECURSIVE MixedOperands(_)
MixedOperands(e) ==
    IF ~IsPredicate(e) THEN 0
    ELSE LET RECURSIVE S(_)
             S(n) == IF n = 0 THEN 0
                     ELSE LET i == e.values[n]
                          IN  (IF IsLogic(e) /\ IsLogic(i) /\ i.operator # e.operator
                               THEN 1 ELSE 0) + MixedOperands(i) + S(n - 1)
         IN  S(Len(e.values))

\* every and / or node of e has an operand
NoEmptyLogic(e) == \A p \in SubPredicates(e) : IsLogic(p) => Len(p.values) >= 1

\* C1: in the SQL either dialect compiles from a predicate tree, an operand of
\* an and / or node is wrapped in parentheses exactly when it is itself an
\* and / or node with the other operator.
C1_Parentheses ==
    (IsPredicate(built) /\ NoEmptyLogic(built)) =>
        \A d \in Dialects :
            Compile(d, built).raised = "none" =>
                /\ Count(Compile(d, built).sql, Text("(")) = MixedOperands(built)
                /\ Count(Compile(d, built).sql, Text(")")) = MixedOperands(built)

\* the values the claim gives a node built with op from elements
RECURSIVE FlattenedAsClaimed(_, _)
FlattenedAsClaimed(op, elements) ==
    IF elements = <<>> THEN <<>>
    ELSE LET i == Head(elements)
         IN  (IF IsPredicate(i) /\ op \in LogicOps /\ i.operator = op
              THEN i.values ELSE <<i>>) \o FlattenedAsClaimed(op, Tail(elements))

\* C2: a Predicate operand of a node under construction is replaced by its
\* own operands exactly when it carries the same and / or operator as the
\* node; so no and node has a direct and child and no or node a direct or
\* child.
C2_Flattening ==
    /\ (call.op \in {"binary", "logic"} /\ call.raised = "none") =>
            built.values = FlattenedAsClaimed(call.operator, call.args)
    /\ \A p \in SubPredicates(built) :
            IsLogic(p) => \A i \in DOMAIN p.values :
                            ~(IsPredicate(p.values[i]) /\ p.values[i].operator = p.operator)

ComparisonTokens == {"$gt", "$gte", "$lt", "$lte", "$eq", "$ne"}

\* C3: every Predicate the constructors, the overloaded operators or encode
\* produce has exactly 2 values under a binary comparison or arithmetic
\* operator and at least 1 value under and / or.
C3_Arity ==
    \A p \in SubPredicates(built) :
        /\ p.operator \in ComparisonTokens \cup Range(ArithmeticTokens) => Len(p.values) = 2
        /\ p.operator \in LogicOps => Len(p.values) >= 1

\* the operator-keyed mapping {op: [operands...]}
IsOperatorDict(d) ==
    /\ d.t = "dict" /\ Len(d.items) = 1
    /\ InOperator(d.items[1][1])
    /\ d.items[1][2].t = "list"

DictOp(d) == d.items[1][1]
DictOperands(d) == d.items[1][2].items

\* normalized as the claim words it: operands are normalized dicts or literals
RECURSIVE NormalizedAsClaimed(_)
NormalizedAsClaimed(d) ==
    /\ IsOperatorDict(d)
    /\ \A i \in DOMAIN DictOperands(d) :
            DictOperands(d)[i].t = "dict" => NormalizedAsClaimed(DictOperands(d)[i])

\* normalized as encode keeps it: an operand that is an operator-keyed mapping
\* is normalized and carries another operator than its parent; the operands
\* of and / or are all such mappings, and an and has not exactly one; in / nin
\* has two operands, the second a tuple; an arithmetic operator has two
\* operands, the second not a list
RECURSIVE Normalized(_)
NormalizedOperand(op, x) ==
    (x.t = "dict" /\ check_predicate(x)) => (Normalized(x) /\ DictOp(x) # op)

Normalized(d) ==
    /\ IsOperatorDict(d)
    /\ LET op == DictOp(d)
           xs == DictOperands(d)
       IN  CASE op \in LogicOps ->
                    /\ op = "$and" => Len(xs) # 1
                    /\ \A i \in DOMAIN xs : Normalized(xs[i]) /\ DictOp(xs[i]) # op
             [] op \in InOps -> Len(xs) = 2 /\ xs[2].t = "tuple"
             [] op \notin LogicOps \cup InOps /\ InArithmeticOperator(op) ->
                    Len(xs) = 2 /\ xs[2].t # "list" /\ NormalizedOperand(op, xs[2])
             [] OTHER -> \A i \in DOMAIN xs : NormalizedOperand(op, xs[i])

IsField(e) == e.t \in {"FieldProxy", "str"}

\* C5: an eq / ne Predicate that compares a field to None compiles to the
\* field followed by `is null` / `is not null` and appends nothing to params,
\* so no None reaches params on behalf of an eq / ne comparison.
C5_Null ==
    \A p \in SubPredicates(built), d \in Dialects :
        (/\ p.operator \in {"$eq", "$ne"}
         /\ Len(p.values) >= 2
         /\ IsField(p.values[1])
         /\ p.values[2] = NonePy) =>
            /\ Compile(d, p).raised = "none"
            /\ Compile(d, p).sql =
                    Compile(d, p.values[1]).sql
                        \o <<Text(IF p.operator = "$eq" THEN "is null" ELSE "is not null")>>
            /\ Compile(d, p).params = <<>>

\* what the claim says of the Predicate made from left and the given elements
InAsClaimed(op, left, given) ==
    /\ built = [t |-> "Predicate", operator |-> op, values |-> <<left, given>>]
    /\ \A d \in Dialects :
            Compile(d, left).raised = "none" =>
                Compile(d, built) =
                    [sql |-> Compile(d, left).sql \o <<Text(symbols[op]), Text(PARAMSTYLE)>>,
                     params |-> Compile(d, left).params \o <<given>>,
                     raised |-> "none"]

\* C6: the right operand of every in / nin Predicate in_(), nin() or encode
\* produce is the tuple of the given elements, in order and with duplicates,
\* and compiling it appends that one tuple as the single parameter of a
\* single placeholder.
C6_InTuple ==
    /\ (call.op = "in" /\ call.raised = "none") =>
            InAsClaimed(call.operator, call.args[1], Tuple(call.args[2].items))
    /\ \A op \in InOps, sq \in Sequences :
            (call.op = "encode"
                /\ call.args = <<Dict1("id", Dict1(op, List(sq.items)))>>) =>
                    InAsClaimed(op, Str("id"), Tuple(sq.items))

\* the two ways of writing (field OP v1) == v2
ArithmeticComparisons ==
    {[op |-> op, v1 |-> a, v2 |-> b, field |-> f] :
        op \in Range(ArithmeticTokens), a \in Literals, b \in Literals, f \in {ID, Str("id")}}

IsArithmeticComparison(c) ==
    \/ /\ c.field = ID
       /\ call.op = "binary" /\ call.operator = "$eq"
       /\ call.args = <<FuncBinary(c.op, ID, c.v1), c.v2>>
    \/ /\ c.field = Str("id")
       /\ call.op = "encode"
       /\ call.args = <<Dict1("id", Dict1(c.op, List(<<c.v1, c.v2>>)))>>

ArithmeticSql(d, c) ==
    Compile(d, c.field).sql \o <<Text(symbols[c.op]), Text(PARAMSTYLE)>>

\* C7 as stated: (field OP v1) == v2, built with the operators or encoded from
\* {field: {$op: [v1, v2]}}, compiles to `field OP %s = %s` with params
\* [v1, v2].
C7_Original ==
    \A c \in ArithmeticComparisons, d \in Dialects :
        IsArithmeticComparison(c) =>
            /\ Compile(d, built).raised = "none"
            /\ Compile(d, built).sql = ArithmeticSql(d, c) \o <<Text("="), Text(PARAMSTYLE)>>
            /\ Compile(d, built).params = <<c.v1, c.v2>>

\* C7 amended: for v2 other than None it compiles to `field OP %s = %s` with
\* params [v1, v2]; for v2 = None it compiles to `field OP %s is null` with
\* params [v1].
C7_Arithmetic ==
    \A c \in ArithmeticComparisons, d \in Dialects :
        IsArithmeticComparison(c) =>
            /\ Compile(d, built).raised = "none"
            /\ Compile(d, built).sql =
                    ArithmeticSql(d, c) \o (IF c.v2 = NonePy THEN <<Text("is null")>>
                                            ELSE <<Text("="), Text(PARAMSTYLE)>>)
            /\ Compile(d, built).params =
                    (IF c.v2 = NonePy THEN <<c.v1>> ELSE <<c.v1, c.v2>>)

\* (user.id / 1) == 2 was built with the operators
C7_Witness ==
    /\ call.op = "binary" /\ call.operator = "$eq"
    /\ call.args = <<FuncBinary("$truediv", ID, PyInt(1)), PyInt(2)>>
    /\ Compile("mysql", built).params = <<PyInt(1), PyInt(2)>>

(***************************************************************************)
(* Statement builders and compilers: claims                                *)
(***************************************************************************)
\* the methods of the builders that are exposed for chaining
Chaining == {"select", "filter", "where", "order_by", "limit", "first", "all", "paginate",
             "count", "distinct", "count_distinct", "update", "add"}

IsBuilderCall(c) == c.op \in Chaining \cup {"Query.update", "Query.delete"}
Returns(c) == IsBuilderCall(c) /\ c.result.t # "raise"

\* C11: every call of select, filter / where, order_by, limit, first, all,
\* paginate, count, distinct, count_distinct on a Query, of filter and update
\* on an Update, of filter on a Delete and of add on an Insert that returns,
\* returns the object it was called on, and the behaviour goes on with that
\* same object
C11_ReturnsSelf ==
    [][(hist'.n = hist.n + 1 /\ call'.op \in Chaining /\ Returns(call'))
           => (call'.result = Self(ir) /\ ir'.id = ir.id)]_vars

\* a chain of MaxCalls calls that ended with count_distinct
C11_Witness ==
    /\ hist.n = MaxCalls
    /\ call.op = "count_distinct"
    /\ ir.t = "Query"
    /\ call.result = Self(ir)

IsPrefix(a, b) == Len(a) <= Len(b) /\ SubSeq(b, 1, Len(a)) = a
Suffix(a, b) == SubSeq(b, Len(a) + 1, Len(b))
HasFilters(o) == o.t \in {"Query", "Update", "Delete"}

\* the keywords of a filter / order_by call: the dict arguments merged into
\* the keyword arguments
RECURSIVE Keywords(_, _)
Keywords(args, kwargs) ==
    IF args = <<>> THEN kwargs
    ELSE IF Head(args).t = "dict" THEN Keywords(Tail(args), DictUpdate(kwargs, Head(args).items))
    ELSE Keywords(Tail(args), kwargs)

\* the entries a filter call that returns contributes: its predicates in
\* argument order, then field == value for each keyword
FilterEntries(c) ==
    LET kw == Keywords(c.args, c.kwargs)
    IN  SelectSeq(c.args, LAMBDA a : a.t = "Predicate")
            \o [i \in DOMAIN kw |-> FuncBinary("$eq", FieldProxy(TableName, kw[i][1]), kw[i][2])]

\* the pairs an order_by call that returns contributes: True ascending
SortPairs(c) ==
    c.args \o [i \in DOMAIN c.kwargs |-> <<FieldProxy(TableName, c.kwargs[i][1]), c.kwargs[i][2]>>]

\* the filter entries compiled one by one and joined with `and`, an `or`
\* entry in parentheses
RECURSIVE JoinedWithAnd(_, _, _)
JoinedWithAnd(dialect, entries, brackets) ==
    IF entries = <<>> THEN EmptySt
    ELSE LET e == Head(entries)
             c == Compile(dialect, e)
             sql == IF brackets /\ IsLogic(e) /\ e.operator = "$or"
                    THEN <<Text("(")>> \o c.sql \o <<Text(")")>> ELSE c.sql
             rest == JoinedWithAnd(dialect, Tail(entries), brackets)
         IN  [sql |-> sql \o (IF Tail(entries) = <<>> THEN <<>> ELSE <<Text("and")>> \o rest.sql),
              params |-> c.params \o rest.params,
              raised |-> "none"]

WhereJoinsAnd(dialect, filters) ==
    LET w == Where(dialect, filters, EmptySt)
        j == JoinedWithAnd(dialect, filters, TRUE)
        single == JoinedWithAnd(dialect, filters, FALSE)
    IN  (filters # <<>> /\ w.raised = "none") =>
            /\ w.params = j.params
            /\ \/ w.sql = <<Text("where")>> \o j.sql
               \/ Len(filters) = 1 /\ w.sql = <<Text("where")>> \o single.sql

\* both compilers join the entries as said
C12_WhereJoinsAnd == HasFilters(ir) => \A dialect \in Dialects : WhereJoinsAnd(dialect, ir.filters)

\* the PostgreSQL compiler alone joins the entries as said
C12_Postgresql == HasFilters(ir) => WhereJoinsAnd("postgresql", ir.filters)

C12_Step ==
    (hist'.n = hist.n + 1 /\ ir'.id = ir.id /\ HasFilters(ir)) =>
        /\ IsPrefix(ir.filters, ir'.filters)
        /\ call'.op \notin {"filter", "where"} => ir'.filters = ir.filters
        /\ (call'.op \in {"filter", "where"} /\ Returns(call'))
                => Suffix(ir.filters, ir'.filters) = FilterEntries(call'.args)
        /\ ir.t = "Query" =>
                /\ IsPrefix(ir.sorts, ir'.sorts)
                /\ call'.op # "order_by" => ir'.sorts = ir.sorts
                /\ (call'.op = "order_by" /\ Returns(call'))
                        => Suffix(ir.sorts, ir'.sorts) = SortPairs(call'.args)

\* the builder state alone: entries and pairs are only appended
C12_AppendOnlyStep == [][C12_Step]_vars

\* C12: no builder call removes or reorders an earlier filter entry or sort
\* pair, a filter() call that returns appends its entries and an order_by()
\* call its pairs (True ascending), and the compiled WHERE clause is the
\* filter entries joined with `and`
C12_AppendOnly == [](C12_WhereJoinsAnd) /\ [][C12_Step]_vars

Declared(name) == \E i \in DOMAIN DeclaredFields : DeclaredFields[i] = name

\* the call names a field that is not in the table's metadata
UnknownField(c) ==
    CASE c.op = "select" ->
            \E i \in DOMAIN c.args : c.args[i].t = "str" /\ ~Declared(c.args[i].s)
      [] c.op \in {"filter", "where"} ->
            LET kw == Keywords(c.args.args, c.args.kwargs)
            IN  \E i \in DOMAIN kw : ~Declared(kw[i][1])
      [] c.op = "order_by" -> \E i \in DOMAIN c.args.kwargs : ~Declared(c.args.kwargs[i][1])
      [] c.op = "update" -> \E i \in DOMAIN c.args : ~Declared(c.args[i][1])
      [] OTHER -> FALSE

C13_Step(ops) ==
    (hist'.n = hist.n + 1 /\ call'.op \in ops /\ UnknownField(call'))
        => call'.result = Raise("FieldNotFoundError")

\* an object built without an error compiles
C13_Compiles ==
    (hist.errors = 0 /\ HasFilters(ir)) =>
        \A dialect \in Dialects : sql_params(dialect, meta, ir).raised = "none"

\* select, filter and order_by alone do raise in the call
C13_ExceptUpdate == [][C13_Step({"select", "filter", "where", "order_by"})]_vars

\* C13: a select, filter, order_by or Update.update call that names a field
\* the table does not have raises FieldNotFoundError, and an object built
\* without an error compiles without one
C13_FieldNotFound == []C13_Compiles /\ [][C13_Step(Chaining)]_vars

\* the FieldProxy objects of the declared fields, in declaration order
AllFields == [i \in DOMAIN DeclaredFields |-> FieldProxy(TableName, DeclaredFields[i])]

\* the arguments of a select call, names resolved to the table's fields
Selected(fields) ==
    [i \in DOMAIN fields |->
        IF fields[i].t = "str" THEN FieldProxy(TableName, fields[i].s) ELSE fields[i]]

\* select <fields> from <table>, as each dialect writes a list of fields
SelectFrom(dialect, fields) ==
    LET toks == [i \in DOMAIN fields |-> token(dialect, fields[i])]
    IN  <<Text("select")>>
            \o (IF dialect = "mysql"
                THEN [i \in DOMAIN toks |-> IF i < Len(toks) THEN Token("comma", toks[i]) ELSE toks[i]]
                ELSE <<Token("joined", toks)>>)
            \o <<Text("from"), TableToken(dialect)>>

C14_Default ==
    (ir.t = "Query" /\ hist.selects = <<>>) =>
        /\ ir.fields = AllFields
        /\ hist.n = 0 =>
              \A dialect \in Dialects :
                  LET r == sql_params(dialect, meta, ir)
                  IN  /\ r.raised = "none"
                      /\ r.sql = SelectFrom(dialect, AllFields)
                      /\ r.params = <<>>

C14_Step ==
    (hist'.n = hist.n + 1 /\ call'.op = "select" /\ Returns(call')) =>
        /\ ir'.fields = Selected(call'.args)
        /\ ir'.filters = ir.filters
        /\ ir'.sorts = ir.sorts
        /\ ir'.offset = ir.offset
        /\ ir'.rows = ir.rows

\* C14: a Query on which no select, count or distinct was called holds all
\* declared fields in declaration order and, freshly constructed, compiles
\* to select <those fields> from <table> with no params; a select call that
\* returns replaces the field list by its arguments in argument order and
\* leaves filters, sorts, offset and rows as they were
C14_Select == []C14_Default /\ [][C14_Step]_vars

\* a select after a count, on a query that already has a filter and a limit
C14_Witness ==
    /\ call.op = "select"
    /\ Returns(call)
    /\ Len(hist.selects) = 2
    /\ hist.selects[1].op \in {"count", "count_distinct", "distinct"}
    /\ ir.fields = <<NAME, ID>>
    /\ ir.filters # <<>>

MaxPage == 4       \* pages 1 .. MaxPage
MaxPageSize == 3   \* page sizes 1 .. MaxPageSize

\* (offset, rows) as the claim gives them for a call
LimitOf(c) ==
    CASE c.op = "limit" -> <<c.args[1], c.args[2]>>
      [] c.op = "first" -> <<NonePy, PyInt(1)>>
      [] c.op = "all" -> <<NonePy, NonePy>>
      [] c.op = "paginate" -> <<PyInt((c.args[1] - 1) * c.args[2]), PyInt(c.args[2])>>

C15_LastCall ==
    (ir.t = "Query" /\ hist.limits # <<>>) =>
        <<ir.offset, ir.rows>> = LimitOf(hist.limits[Len(hist.limits)])

C15_Pages ==
    ir.t = "Query" =>
        \A page \in 1..MaxPage, page_size \in 1..MaxPageSize :
            LET q == paginate(ir, page, page_size).self
            IN  /\ q.rows = PyInt(page_size)
                /\ q.offset.t = "int"
                /\ q.offset.n >= 0
                /\ q.offset.n % page_size = 0
                /\ q.offset.n = (page - 1) * page_size
                /\ page = 1 => q.offset.n = 0

\* C15: the offset and rows of a Query are those of the last limit, first,
\* all or paginate call; paginate(page, page_size) gives offset
\* (page-1)*page_size, which for page >= 1 and page_size >= 1 is a
\* non-negative multiple of page_size and 0 for page 1
C15_Limit == C15_LastCall /\ C15_Pages

\* paginate(3, 2) called after two other calls of the limit family
C15_Witness ==
    /\ ir.t = "Query"
    /\ Len(hist.limits) = 3
    /\ call = [op |-> "paginate", args |-> <<3, 2>>, result |-> Self(ir)]
    /\ hist.limits[1].op # "paginate"
    /\ ir.offset = PyInt(4)
    /\ ir.rows = PyInt(2)

\* COUNT(field), DISTINCT field, COUNT(DISTINCT field)
IsCountOf(f) == f.t = "CountField" /\ f.field.t \in {"FieldProxy", "FakeField"}
IsDistinctOf(f) == f.t = "DistinctField" /\ f.field.t \in {"FieldProxy", "FakeField"}
IsCountDistinctOf(f) == f.t = "CountField" /\ IsDistinctOf(f.field)

C16_Step ==
    (hist'.n = hist.n + 1 /\ call'.op \in {"count", "distinct", "count_distinct"}
        /\ Returns(call')) =>
        /\ Len(ir'.fields) = 1
        /\ call'.op = "count" => IsCountOf(ir'.fields[1])
        /\ call'.op = "distinct" => IsDistinctOf(ir'.fields[1])
        /\ call'.op = "count_distinct" => IsCountDistinctOf(ir'.fields[1])
        /\ ir'.filters = ir.filters
        /\ ir'.sorts = ir.sorts
        /\ ir'.offset = ir.offset
        /\ ir'.rows = ir.rows

\* count takes a FieldRef, 1, "*" and a field name
C16_CountAccepts ==
    ir.t = "Query" =>
        \A field \in {ID, AGE, PyInt(1), Str("*"), Str("name"), Str("age")} :
            /\ count(ir, meta, field).result = Self(ir)
            /\ \A dialect \in Dialects :
                  sql_params(dialect, meta, count(ir, meta, field).self).raised = "none"

C16_NameAsRef ==
    ir.t = "Query" =>
        \A i \in DOMAIN DeclaredFields, dialect \in Dialects :
            sql_params(dialect, meta, count_distinct(ir, meta, Str(DeclaredFields[i])).self)
                = sql_params(dialect, meta, count_distinct(ir, meta, AllFields[i]).self)

\* the select list, the frame and the arguments of count alone
C16_StateOnly == [][C16_Step]_vars /\ []C16_CountAccepts

\* C16: count, distinct and count_distinct leave one element in the select
\* list, COUNT(field), DISTINCT field and COUNT(DISTINCT field), and leave
\* filters, sorts and limit alone; count takes a FieldRef, 1, "*" and a
\* field name; count_distinct of a field name compiles to the same statement
\* as count_distinct of that field's FieldRef
C16_CountDistinct == []C16_NameAsRef /\ []C16_CountAccepts /\ [][C16_Step]_vars

\* the position of a keyword in a statement, 0 when it is not there
Position(sql, word) ==
    IF \E i \in DOMAIN sql : sql[i] = Text(word)
    THEN CHOOSE i \in DOMAIN sql : sql[i] = Text(word) /\ \A j \in 1..(i - 1) : sql[j] # Text(word)
    ELSE 0

\* the params of the filter entries, entry by entry
RECURSIVE EntryParams(_, _)
EntryParams(dialect, entries) ==
    IF entries = <<>> THEN <<>>
    ELSE Compile(dialect, Head(entries)).params \o EntryParams(dialect, Tail(entries))

\* SELECT-list, FROM, WHERE, ORDER BY, LIMIT
ClausesInOrder(query, sql) ==
    LET from == Position(sql, "from")
        where == Position(sql, "where")
        order == Position(sql, "order")
        lim == Position(sql, "limit")
    IN  /\ from > 1
        /\ (where # 0) = (query.filters # <<>>)
        /\ (order # 0) = (query.sorts # <<>>)
        /\ (lim # 0) = Truthy(query.rows)
        /\ where # 0 => where = from + 2
        /\ order # 0 => (order > from + 1 /\ order > where /\ sql[order + 1] = Text("by"))
        /\ lim # 0 => (lim = Len(sql) - 1 /\ lim > order /\ lim > where)

\* the calls of one kind made again, in their order
RECURSIVE Again(_, _)
Again(self, calls) ==
    IF calls = <<>> THEN self
    ELSE Again(Invoke(self, InitTable, Head(calls).op, Head(calls).args).self, Tail(calls))

\* a second builder given the same calls kind by kind: the select-list calls,
\* then the filter calls, then the order_by calls, then the last limit call
Replay(h) ==
    Again(Again(Again(Again(Query(1, InitTable), h.selects), h.filters), h.orders),
          IF h.limits = <<>> THEN <<>> ELSE <<h.limits[Len(h.limits)]>>)

\* C17: the statement of a Query has its clauses in the order SELECT-list,
\* FROM, WHERE, ORDER BY, LIMIT, its params are those of the filter entries
\* in their order, and it is the statement of the builder that received the
\* same calls with all filter calls first, then the order_by calls, then the
\* last limit
C17_ClauseOrder ==
    ir.t = "Query" =>
        \A dialect \in Dialects :
            LET r == sql_params(dialect, meta, ir)
            IN  /\ r.raised = "none"
                /\ ClausesInOrder(ir, r.sql)
                /\ r.params = EntryParams(dialect, ir.filters)
                /\ r = sql_params(dialect, meta, Replay(hist))

\* limit, then order_by, then filter: the reverse of the clause order
C17_Witness ==
    /\ ir.t = "Query"
    /\ hist.n = 3
    /\ call.op = "filter"
    /\ Len(ir.filters) = 2
    /\ ir.sorts # <<>>
    /\ Truthy(ir.rows)
    /\ Truthy(ir.offset)
    /\ Len(hist.filters) = 1 /\ Len(hist.orders) = 1 /\ Len(hist.limits) = 1

\* the INSERT statement that names the fields `names`
InsertInto(dialect, names) ==
    LET toks == [i \in DOMAIN names |-> token(dialect, FieldProxy(TableName, names[i]))]
    IN  IF dialect = "mysql"
        THEN <<Text("insert"), Text("into"), TableToken(dialect), Text("(")>>
                \o [i \in DOMAIN toks |-> IF i < Len(toks) THEN Token("comma", toks[i]) ELSE toks[i]]
                \o <<Text(")"), Text("VALUES"), Token("placeholders", <<Len(names), IF dialect = "mysql" THEN "," ELSE ", ">>)>>
        ELSE <<Text("insert"), Text("into"), TableToken(dialect), Token("columns", toks),
               Text("values"), Token("placeholders", <<Len(names), IF dialect = "mysql" THEN "," ELSE ", ">>)>>

InsertAsClaimed(dialect, m, query) ==
    LET r == sql_params(dialect, m, query)
    IN  /\ r.raised = "none"
        /\ r.sql = InsertInto(dialect, DeclaredFields)
        /\ Len(r.params) = Len(query.values)
        /\ \A n \in DOMAIN query.values :
              r.params[n] = Tuple([i \in DOMAIN DeclaredFields |-> query.values[n][DeclaredFields[i]]])

\* the MySQL compiler on metadata that no compile has touched
C18_Mysql == (ir.t = "Insert" /\ meta = InitTable) => InsertAsClaimed("mysql", meta, ir)

\* C18: an Insert compiles to one INSERT statement that names every declared
\* field in declaration order with one placeholder each, and to one params
\* tuple per row, in row order, with the row's values in that field order
C18_Insert == ir.t = "Insert" => \A dialect \in Dialects : InsertAsClaimed(dialect, meta, ir)

\* field = %s, ... for the value mapping, in its insertion order
RECURSIVE SetList(_, _)
SetList(dialect, value) ==
    IF value = <<>> THEN <<>>
    ELSE <<token(dialect, FieldProxy(TableName, Head(value)[1])), Text("="),
           IF Tail(value) = <<>> THEN Text(PARAMSTYLE) ELSE Token("comma", Text(PARAMSTYLE))>>
            \o SetList(dialect, Tail(value))

\* the WHERE clause is there exactly when there is a filter
WhereIffFilters(dialect, filters, head, sql) ==
    LET w == Where(dialect, filters, EmptySt)
    IN  /\ sql = head \o w.sql
        /\ (Position(sql, "where") # 0) = (filters # <<>>)
        /\ filters = <<>> => sql = head

UpdateAsClaimed(dialect, m, query) ==
    LET r == sql_params(dialect, m, query)
    IN  /\ r.raised = "none"
        /\ WhereIffFilters(dialect, query.filters,
                           <<Text("update"), TableToken(dialect), Text("set")>>
                               \o SetList(dialect, query.value),
                           r.sql)
        /\ r.params = [i \in DOMAIN query.value |-> query.value[i][2]]
                          \o EntryParams(dialect, query.filters)

DeleteAsClaimed(dialect, m, query) ==
    LET r == sql_params(dialect, m, query)
    IN  /\ r.raised = "none"
        /\ WhereIffFilters(dialect, query.filters,
                           <<Text("delete"), Text("from"), TableToken(dialect)>>, r.sql)
        /\ r.params = EntryParams(dialect, query.filters)

\* the mapping names declared fields only, and at least one
SetsDeclaredFields(value) == value # <<>> /\ \A i \in DOMAIN value : Declared(value[i][1])

\* Update with a non-empty mapping of declared fields, and Delete
C19_NonEmptyDeclared ==
    /\ (ir.t = "Update" /\ SetsDeclaredFields(ir.value)) =>
            \A dialect \in Dialects : UpdateAsClaimed(dialect, meta, ir)
    /\ ir.t = "Delete" => \A dialect \in Dialects : DeleteAsClaimed(dialect, meta, ir)

\* C19: an Update compiles to update <table> set <field = %s, ...> [where
\* ...] with the new values, in the insertion order of the mapping, and then
\* the filter parameters as params; the WHERE clause of an Update or a Delete
\* is there exactly when the object has a filter
C19_Update ==
    /\ ir.t = "Update" => \A dialect \in Dialects : UpdateAsClaimed(dialect, meta, ir)
    /\ ir.t = "Delete" => \A dialect \in Dialects : DeleteAsClaimed(dialect, meta, ir)

IsCompileStep == call'.op = "sql_params" /\ hist' = hist

\* compiling again gives the same statement
C20_Repeatable ==
    \A dialect \in Dialects :
        LET r == sql_params(dialect, meta, ir)
        IN  sql_params(dialect, r.meta, ir) = r

\* the MySQL compiler alone
C20_Mysql ==
    /\ [][IsCompileStep /\ call'.args = "mysql" => (ir' = ir /\ meta' = meta)]_vars
    /\ [](LET r == sql_params("mysql", meta, ir) IN sql_params("mysql", r.meta, ir) = r)

\* Query, Update and Delete alone
C20_NoInsert ==
    /\ [][IsCompileStep /\ ir.t # "Insert" => (ir' = ir /\ meta' = meta)]_vars
    /\ [](ir.t # "Insert" => C20_Repeatable)

\* C20: a compile step of either dialect changes neither the object compiled
\* nor the table's metadata, and compiling the same object again gives the
\* same statement and params
C20_Pure == [][IsCompileStep => (ir' = ir /\ meta' = meta)]_vars /\ []C20_Repeatable

\* a scalar literal, or the tuple of an IN list
RECURSIVE IsScalar(_)
IsScalar(v) ==
    \/ v.t \in {"int", "str", "None"}
    \/ v.t = "tuple" /\ \A i \in DOMAIN v.items : IsScalar(v.items[i])

\* the placeholders of a statement
Placeholders(sql) ==
    Cardinality({i \in DOMAIN sql : sql[i] \in {Text(PARAMSTYLE), Token("comma", Text(PARAMSTYLE))}})

\* a FieldRef or a Predicate on the right-hand side of a comparison
RECURSIVE ComparesToExpression(_)
ComparesToExpression(e) ==
    /\ IsPredicate(e)
    /\ \/ \E i \in DOMAIN e.values : ComparesToExpression(e.values[i])
       \/ e.operator \notin LogicOps /\ Len(e.values) = 2
            /\ e.values[2].t \in {"FieldProxy", "Predicate"}

ScalarParams(dialect) ==
    LET r == sql_params(dialect, meta, ir)
    IN  r.raised = "none" =>
            /\ \A i \in DOMAIN r.params : IsScalar(r.params[i])
            /\ Placeholders(r.sql) = Len(r.params)

\* only literals on the right-hand sides
C21_LiteralsOnly ==
    (HasFilters(ir) /\ \A i \in DOMAIN ir.filters : ~ComparesToExpression(ir.filters[i]))
        => \A dialect \in Dialects : ScalarParams(dialect)

\* C21: every element of the params of a compiled Query, Update or Delete is
\* a scalar literal or the tuple of an IN list, a FieldRef or Predicate
\* operand being written into the SQL text, and the statement has as many
\* placeholders as params
C21_ScalarParams == HasFilters(ir) => \A dialect \in Dialects : ScalarParams(dialect)

C26_Step(ops) ==
    (hist'.n = hist.n + 1 /\ call'.op \in ops /\ call'.result = Raise("FieldNotFoundError"))
        => ir' = ir

\* order_by alone is all-or-nothing: it builds its list before it assigns
C26_OrderBy == [][C26_Step({"order_by"})]_vars

\* C26: a builder call that raises FieldNotFoundError leaves the builder as
\* it was before the call, none of the call's arguments being applied
C26_AllOrNothing == [][C26_Step(Chaining)]_vars

\* the statement has the keywords of its kind as whole tokens
KeywordsIntact(kind, sql) ==
    /\ \A i \in DOMAIN sql : sql[i].k # "chopped"
    /\ kind = "Query" => sql[1] = Text("select") /\ Position(sql, "from") # 0
    /\ kind = "Update" => Position(sql, "set") # 0
    /\ kind = "Insert" => Position(sql, ")") # 0

MysqlKeywords ==
    LET r == sql_params("mysql", meta, ir)
    IN  r.raised = "none" => KeywordsIntact(ir.t, r.sql)

\* with a field selected and a value to set, the tail token is a comma token
C30_NonEmpty ==
    (/\ ir.t = "Query" => ir.fields # <<>>
     /\ ir.t = "Update" => ir.value # <<>>) => MysqlKeywords

\* C30: every statement the MySQL dialect compiles has its keywords intact,
\* the removal of the trailing comma of a list taking a comma and nothing
\* else, also for an empty select list and an empty Update mapping
C30_KeywordsIntact == MysqlKeywords

(***************************************************************************)
(* Dialect modules and encode(): claims                                    *)
(***************************************************************************)
\* the module-level statement of a dialect's query module:
\* LogicOperator.registers(like, not_like)
DialectImport(r) ==
    /\ r.op = "registers"
    /\ r.group = "LogicOperator"
    /\ r.args = <<"$like", "$not_like">>

Imported(r) ==
    /\ r.raised = "none"
    /\ DialectTokens \subseteq DOMAIN groups["LogicOperator"]
    /\ DialectTokens \subseteq DOMAIN symbols

\* the first dialect module of a process initialises
C28_FirstDialect ==
    (DialectImport(ret) /\ ret.before \cap DialectTokens = {}) => Imported(ret)

\* C28: the module-level registration of $like and $not_like completes for
\* the second dialect module of a process as for the first, both operators
\* being members of the logic group with a symbol in each dialect
C28_BothDialects == DialectImport(ret) => Imported(ret)

\* the keys the last encode call handed to Operator.validate were all
\* registered tokens
KnownKeys(c) ==
    LET keys == EncodeEffect(c.args[1]).keys
    IN  \A i \in DOMAIN keys : keys[i] \in DOMAIN operators

\* constructors, and encode of mappings whose keys with the prefix are
\* registered tokens, leave the registry alone
C27_KnownTokens ==
    [][(call'.op = "encode" => KnownKeys(call'))
            => (operators' = operators /\ heap' = heap /\ groups' = groups)]_vars

\* C27: once the modules are initialised no encode() or predicate
\* constructor call adds an operator, also not encode() of a mapping with a
\* key that has the prefix and is no known token
C27_RegistryFrozen == [][DOMAIN operators' = DOMAIN operators]_vars

\* a mapping of one item comes back empty
C29_Emptied ==
    (call.op = "encode" /\ call.args[1].t = "dict" /\ Len(call.args[1].items) = 1)
        => call.after = Dict(<<>>)

C29_ArgumentKept == call.op = "encode" => call.after = call.args[1]

C29_SameTree ==
    (call'.op = "encode" /\ call'.again) => (call'.raised = call.raised /\ built' = built)

\* C29: encode(obj) leaves obj as it was, and a second encode of the same
\* object gives a Predicate tree equal to the first
C29_Unmodified == []C29_ArgumentKept /\ [][C29_SameTree]_vars

(***************************************************************************)
(* Model instances and sessions: claims                                    *)
(***************************************************************************)
PrimaryKey(self) == self.dict["id"]

\* the step is an assignment to the field name: instance.name = value, or
\* set_inc_id for the autoincrement field
Assigns(c, name) ==
    \/ c.op = "setattr" /\ c.args[1] = name
    \/ c.op = "set_inc_id" /\ name = IncField

C22_Step ==
    /\ PrimaryKey(instance) # NonePy => PrimaryKey(instance') = PrimaryKey(instance)
    /\ (call'.op = "setattr" /\ call'.args[1] = "id" /\ PrimaryKey(instance) # NonePy)
            => (call'.raised = "PrimaryKeyModifyError" /\ instance' = instance)
    /\ (call'.op = "set_inc_id" /\ PrimaryKey(instance) # NonePy)
            => (call'.raised = "none" /\ instance' = instance)
    /\ (Assigns(call', "id") /\ PrimaryKey(instance) = NonePy)
            => (call'.raised = "none" /\ call'.args[Len(call'.args)] # NonePy
                    => PrimaryKey(instance') = call'.args[Len(call'.args)])

\* C22: a primary key that holds a value is never changed by an assignment,
\* a set_inc_id or a save: the assignment raises PrimaryKeyModifyError and
\* set_inc_id does nothing, the instance staying as it is; while the key is
\* None an assignment or set_inc_id sets it
C22_PrimaryKeyKept == [][C22_Step]_vars

\* an assignment to the key set_inc_id had set is rejected
C22_Witness ==
    /\ call.op = "setattr" /\ call.args = <<"id", PyInt(1)>>
    /\ call.raised = "PrimaryKeyModifyError"
    /\ PrimaryKey(instance) = PyInt(2)

C24_Step ==
    \A name \in ModelFields \cup {"age"} :
        Assigns(call', name) =>
            /\ call'.factory =
                  IF /\ name \in ModelFields /\ name \notin Range(HotFields)
                     /\ call'.raised = "none"
                     /\ instance'.dict[name] # instance.dict[name]
                  THEN Len(HotFields) ELSE 0
            /\ \A i \in DOMAIN HotFields :
                  instance'.dict[HotFields[i]] =
                      IF call'.factory > 0 THEN update_factory(now)
                      ELSE IF name = HotFields[i] /\ call'.raised = "none"
                      THEN call'.args[2]
                      ELSE instance.dict[HotFields[i]]
            /\ call'.depth <= 2

\* C24: the hot fields are recomputed, once each, exactly in an assignment
\* that changes the value of a declared field that is not hot; an equal
\* value, an undeclared attribute, a rejected assignment and an assignment
\* to a hot field recompute nothing, and no recomputation starts another
C24_HotFields == [][C24_Step]_vars

\* name changed after the clock moved: u_at took the new time
C24_Witness ==
    /\ call.op = "setattr" /\ call.args = <<"name", Str("Tom")>>
    /\ call.factory = 1
    /\ instance.dict["u_at"] = PyInt(1)

Removed(c) == c.op = "remove" /\ c.cursor.raised = "none"

RowNotFound(c) == (c.raised = "RowNotFoundError") <=> (c.cursor.rowcount = 0)

\* the shared base session and the async session
C23_RowcountTested == (Removed(call) /\ call.session # "mysql.Session") => RowNotFound(call)

\* C23: remove raises RowNotFoundError exactly when the DELETE reports no
\* affected row, in every session
C23_RowNotFound == Removed(call) => RowNotFound(call)

Saved(c) == c.op = "save" /\ c.raised = "none"

C25_Step(sessions) ==
    /\ (Saved(call) /\ call.session \in sessions /\ call'.op = "save") => call'.executed = <<>>
    /\ (call'.op = "save" /\ call'.executed # <<>>) => instance.fields_set # {}

\* the sessions that clear __fields_set__
C25_Clearing == [][C25_Step(Sessions \ {"mysql.Session"})]_vars

\* C25: a save right after a save that returned executes no statement, and a
\* save executes a statement only for an instance with a field set
C25_SaveOnce == [][C25_Step(Sessions)]_vars

====
